---- MODULE Spec2Model ----
(***************************************************************************)
(* Dashboard grid: the State Manager (state.js) and the Grid/Interaction   *)
(* Engine (grid.js, GridManager) as one state machine.                     *)
(*                                                                         *)
(* A widget record is [id, type, x, y, w, h]; an id "<type>-<n>" is the    *)
(* pair <<type, n>>.  JavaScript numbers are integers plus NaN; every      *)
(* arithmetic step and comparison of the code goes through the Js...       *)
(* operators below so that NaN behaves as it does in the code.             *)
(***************************************************************************)
EXTENDS Integers, Sequences, FiniteSets, TLC

VARIABLES
    cols,        \* state.grid.cols (copied into gridSettings.cols at init)
    widgets,     \* state.widgets: sequence of widget records
    elements,    \* children of the grid container, in document order
    isDragging,  \* GridManager.isDragging
    isResizing,  \* GridManager.isResizing
    dragData,    \* GridManager.dragData   (Null when absent)
    resizeData,  \* GridManager.resizeData (Null when absent)
    ghost,       \* the drag ghost: Null when hidden, else [x, y, w, h]
    nextEid,     \* identity of the next container to be created
    issued,      \* history: ids given by addWidget/duplicateWidget, in order
    gestureStart,\* history: the widget list at the pointer-down of the gesture
    listeners,   \* StateManager.listeners: topic -> handlers in insertion order
    tokens,      \* the unsubscribe functions returned so far: [event, callback]
    live,        \* history: the subscribe calls not yet unsubscribed
    events,      \* history: events emitted by the last step, with deliveries
    debounceTimeout, \* "null", or "pending" while the save timer is armed
    store,       \* the Persistent Store entry: Null or the saved snapshot
    writes,      \* history: writes to the Persistent Store among the counted steps
    theme,       \* state.theme
    last,        \* history: the last event handled and what it did
    steps        \* history: number of events handled so far

vars == << cols, widgets, elements, isDragging, isResizing, dragData,
           resizeData, ghost, nextEid, issued, gestureStart, listeners, tokens,
           live, events, debounceTimeout, store, writes, theme, last, steps >>

----------------------------------------------------------------------------
(* Bounds of the model *)

MaxSteps == 3

(* Program constants *)

DefaultCols == 12
RowHeight == 60
Gap == 8
MaxScanRows == 100
MaxAttempts == 100
DefaultW == 3
DefaultH == 2
DefaultTheme == "system"

(* The container is laid out ContainerWidth pixels wide (environment). *)
ContainerWidth == 1192

Null == [none |-> TRUE]

----------------------------------------------------------------------------
(* JavaScript numbers: integers and NaN *)

NaN == -999999

IsNaN(v) == v = NaN

JsAdd(a, b) == IF IsNaN(a) \/ IsNaN(b) THEN NaN ELSE a + b

JsSub(a, b) == IF IsNaN(a) \/ IsNaN(b) THEN NaN ELSE a - b

JsLe(a, b) == ~IsNaN(a) /\ ~IsNaN(b) /\ a <= b

JsLt(a, b) == ~IsNaN(a) /\ ~IsNaN(b) /\ a < b

JsGt(a, b) == ~IsNaN(a) /\ ~IsNaN(b) /\ a > b

JsStrictNe(a, b) == IsNaN(a) \/ IsNaN(b) \/ a # b

MathMax(a, b) == IF IsNaN(a) \/ IsNaN(b) THEN NaN ELSE IF a >= b THEN a ELSE b

MathMin(a, b) == IF IsNaN(a) \/ IsNaN(b) THEN NaN ELSE IF a <= b THEN a ELSE b

(* Math.round(n / d) for integers n and d > 0: halves round up. *)
MathRoundDiv(n, d) == (2 * n + d) \div (2 * d)

(* v || d *)
JsOr(v, d) == IF IsNaN(v) \/ v = 0 THEN d ELSE v

(* p.f || d for an object p that may lack the field f *)
FieldOr(p, f, d) == IF f \in DOMAIN p THEN JsOr(p[f], d) ELSE d

(* !p.f *)
FieldFalsy(p, f) == IF f \in DOMAIN p THEN IsNaN(p[f]) \/ p[f] = 0 ELSE TRUE

(* { ...old, ...updates } *)
Merge(old, updates) ==
    [f \in DOMAIN old \cup DOMAIN updates |->
        IF f \in DOMAIN updates THEN updates[f] ELSE old[f]]

----------------------------------------------------------------------------
(* Sequence helpers *)

Indices(s) == 1..Len(s)

RemoveAt(s, i) == [k \in 1..(Len(s) - 1) |-> IF k < i THEN s[k] ELSE s[k + 1]]

(* Array.prototype.findIndex by id: the first match, 0 when there is none *)
FindIndex(ws, id) ==
    IF \E i \in Indices(ws) : ws[i].id = id
    THEN CHOOSE i \in Indices(ws) :
            ws[i].id = id /\ \A j \in 1..(i - 1) : ws[j].id # id
    ELSE 0

----------------------------------------------------------------------------
(* State Manager: publish/subscribe *)

Topics ==
    { "*", "widget-added", "widget-updated", "widget-removed", "theme-changed",
      "layout-imported", "import-error", "layout-exported", "state-saved",
      "save-error", "layout-reset", "state-loaded", "load-error",
      "state-cleared", "clear-error" }

(* The handlers registered while the application starts: the State          *)
(* Manager's own auto-save handler, the Grid Engine's three and the          *)
(* application's theme handler.                                              *)
SaveHandler == "save"

InitialListeners ==
    [t \in Topics |->
        CASE t = "*"              -> << SaveHandler >>
          [] t = "widget-added"   -> << "gridAdded" >>
          [] t = "widget-removed" -> << "gridRemoved" >>
          [] t = "widget-updated" -> << "gridUpdated" >>
          [] t = "theme-changed"  -> << "appTheme" >>
          [] OTHER                -> << >>]

(* this.listeners = new Map() while the constructor runs loadState: the   *)
(* first subscribe call comes after it.                                     *)
NoListeners == [t \in Topics |-> << >>]

InSeq(q, v) == \E i \in DOMAIN q : q[i] = v

(* Set.prototype.add: a value already in the set keeps its place *)
SetAdd(q, v) == IF InSeq(q, v) THEN q ELSE Append(q, v)

(* Set.prototype.delete *)
SetDelete(q, v) == SelectSeq(q, LAMBDA u : u # v)

subscribe(ls, event, callback) ==
    [ls EXCEPT ![event] = SetAdd(ls[event], callback)]

(* The function subscribe returned, called *)
unsubscribe(ls, tok) ==
    [ls EXCEPT ![tok.event] = SetDelete(ls[tok.event], tok.callback)]

(* An emit that calls the handlers of the topic only *)
emitTopicOnly(ls, ev, seen) ==
    [topic |-> ev.topic,
     data |-> ev.data,
     seen |-> seen,
     to |-> [i \in DOMAIN ls[ev.topic] |-> << ls[ev.topic][i], ev.topic >>]]

(* emit: the handlers of the topic in order, then the wildcard handlers;    *)
(* each delivery is <<handler, topic it is registered on>>, and seen is the *)
(* widget list a handler reads from getState() while it runs.                *)
emit(ls, ev, seen) ==
    [topic |-> ev.topic,
     data |-> ev.data,
     seen |-> seen,
     to |-> [i \in DOMAIN ls[ev.topic] |-> << ls[ev.topic][i], ev.topic >>]
            \o [i \in DOMAIN ls["*"] |-> << ls["*"][i], "*" >>]]

(* Some delivery in ds reached the auto-save handler, which calls           *)
(* debouncedSave.                                                            *)
SaveReached(ds) ==
    \E i \in DOMAIN ds : \E j \in DOMAIN ds[i].to : ds[i].to[j][1] = SaveHandler

(* The events evs are emitted in this step *)
Publish(evs) ==
    /\ events' = [i \in DOMAIN evs |-> emit(listeners, evs[i], widgets')]
    /\ debounceTimeout' = IF SaveReached(events') THEN "pending" ELSE debounceTimeout

NoEvents == << >>

----------------------------------------------------------------------------
(* State Manager: pure parts *)

DefaultWidgets ==
    << [id |-> <<"clock", 1>>,    type |-> "clock",    x |-> 0, y |-> 0, w |-> 3, h |-> 2,
          config |-> [title |-> "Clock"]],
       [id |-> <<"weather", 1>>,  type |-> "weather",  x |-> 3, y |-> 0, w |-> 3, h |-> 2,
          config |-> [title |-> "Weather"]],
       [id |-> <<"pomodoro", 1>>, type |-> "pomodoro", x |-> 6, y |-> 0, w |-> 3, h |-> 2,
          config |-> [title |-> "Pomodoro"]],
       [id |-> <<"todo", 1>>,     type |-> "todo",     x |-> 9, y |-> 0, w |-> 3, h |-> 2,
          config |-> [title |-> "Todo List"]],
       [id |-> <<"calendar", 1>>, type |-> "calendar", x |-> 0, y |-> 2, w |-> 4, h |-> 3,
          config |-> [title |-> "Calendar"]],
       [id |-> <<"notes", 1>>,    type |-> "notes",    x |-> 4, y |-> 2, w |-> 4, h |-> 3,
          config |-> [title |-> "Notes"]],
       [id |-> <<"stocks", 1>>,   type |-> "stocks",   x |-> 8, y |-> 2, w |-> 4, h |-> 3,
          config |-> [title |-> "Stocks"]],
       [id |-> <<"links", 1>>,    type |-> "links",    x |-> 0, y |-> 5, w |-> 6, h |-> 2,
          config |-> [title |-> "Quick Links"]],
       [id |-> <<"quotes", 1>>,   type |-> "quotes",   x |-> 6, y |-> 5, w |-> 3, h |-> 2,
          config |-> [title |-> "Quotes"]],
       [id |-> <<"system", 1>>,   type |-> "system",   x |-> 9, y |-> 5, w |-> 3, h |-> 2,
          config |-> [title |-> "System"]] >>

(* generateWidgetId: counter from 1 upwards until "<type>-<counter>" is unused *)
RECURSIVE NextFreeId(_, _, _)
NextFreeId(ws, type, counter) ==
    IF \E i \in Indices(ws) : ws[i].id = <<type, counter>>
    THEN NextFreeId(ws, type, counter + 1)
    ELSE <<type, counter>>

generateWidgetId(ws, type) == NextFreeId(ws, type, 1)

(* The cells one widget writes into gridMap: both loops run only on numbers *)
WidgetCells(wd) ==
    IF IsNaN(wd.x) \/ IsNaN(wd.y) \/ IsNaN(wd.w) \/ IsNaN(wd.h)
    THEN {}
    ELSE { <<cx, cy>> : cx \in wd.x..(wd.x + wd.w - 1), cy \in wd.y..(wd.y + wd.h - 1) }

GridMap(ws) == UNION { WidgetCells(ws[i]) : i \in Indices(ws) }

(* A canPlace that looks at the origin cell only *)
CanPlaceOriginOnly(gridMap, x, y, width, height) ==
    <<x, y>> \notin gridMap

(* canPlace: no cell of the width x height area at (x, y) is in gridMap *)
CanPlace(gridMap, x, y, width, height) ==
    \/ IsNaN(width)
    \/ IsNaN(height)
    \/ \A dx \in 0..(width - 1), dy \in 0..(height - 1) :
           <<x + dx, y + dy>> \notin gridMap

(* Math.max(...widgets.map(w => w.y + w.h), 0) *)
RECURSIVE MaxBottom(_, _)
MaxBottom(ws, i) ==
    IF i > Len(ws) THEN 0
    ELSE MathMax(JsAdd(ws[i].y, ws[i].h), MaxBottom(ws, i + 1))

(* The inner loop of the scan: x from its current value to cols - width *)
RECURSIVE ScanRow(_, _, _, _, _, _)
ScanRow(gridMap, c, width, height, x, y) ==
    IF ~JsLe(x, JsSub(c, width)) THEN NaN
    ELSE IF CanPlace(gridMap, x, y, width, height) THEN x
    ELSE ScanRow(gridMap, c, width, height, x + 1, y)

(* The outer loop: the first row from y0 to MaxScanRows - 1 in which the     *)
(* inner loop finds a place; the result carries found = FALSE when the scan  *)
(* fell through to the fallback.                                             *)
ScanRows(ws, gridMap, c, width, height, y0) ==
    LET hit(y) == ~IsNaN(ScanRow(gridMap, c, width, height, 0, y))
        rows == y0..(MaxScanRows - 1)
    IN  IF \E y \in rows : hit(y)
        THEN LET y == CHOOSE r \in rows : hit(r) /\ \A z \in y0..(r - 1) : ~hit(z)
             IN  [x |-> ScanRow(gridMap, c, width, height, 0, y), y |-> y, found |-> TRUE]
        ELSE [x |-> 0, y |-> MaxBottom(ws, 1), found |-> FALSE]

(* A findEmptyPosition whose scan starts one row too low *)
findEmptyPositionFromRowOne(ws, c, width, height) ==
    ScanRows(ws, GridMap(ws), c, width, height, 1)

findEmptyPosition(ws, c, width, height) ==
    ScanRows(ws, GridMap(ws), c, width, height, 0)

----------------------------------------------------------------------------
(* The rendered grid: inline grid-column / grid-row of a widget container *)

Auto == [auto |-> TRUE]

(* element.style.gridColumn = `${pos + 1} / span ${size}`: the style engine  *)
(* keeps the previous value when the text is no valid grid line.             *)
SetGridLine(old, pos, size) ==
    IF ~IsNaN(pos) /\ ~IsNaN(size) /\ pos + 1 # 0 /\ size >= 1
    THEN [start |-> pos + 1, span |-> size]
    ELSE old

updateWidgetPosition(el, wd) ==
    [el EXCEPT !.col = SetGridLine(el.col, wd.x, wd.w),
               !.row = SetGridLine(el.row, wd.y, wd.h)]

(* previewResize writes the same two properties from the validated geometry *)
previewResize(el, size) == updateWidgetPosition(el, size)

(* The types whose import() of ./widgets/<type>.js may resolve: those of the *)
(* default layout. import() of any other name rejects.                       *)
WidgetModules ==
    { "clock", "weather", "pomodoro", "todo", "calendar", "notes", "stocks",
      "links", "quotes", "system" }

(* What createWidget adds to the configuration it is handed: the keys of    *)
(* its defaultConfig that the record's config does not carry                 *)
InstanceDefaults == [showSeconds |-> TRUE]

(* A new container shows the loading placeholder; type is dataset.widgetType, *)
(* content what .widget-content holds, destroyed whether destroy() of the    *)
(* instance has run, and signal the configuration of a dispatched            *)
(* widget-config-changed event that the document listener has not handled.   *)
NewElement(eid, wd) ==
    updateWidgetPosition(
        [eid |-> eid, id |-> wd.id, col |-> Auto, row |-> Auto, exiting |-> FALSE,
         type |-> IF "type" \in DOMAIN wd THEN wd.type ELSE "undefined",
         content |-> "loading", destroyed |-> FALSE, signal |-> Null], wd)

(* A loadWidgetContent without its catch block *)
loadWidgetContentNoCatch(el, ok) ==
    IF ok /\ el.type \in WidgetModules
    THEN [el EXCEPT !.content = "instance"]
    ELSE el

(* loadWidgetContent once the import has settled: ok is whether createWidget *)
(* returns an instance. Every failure ends in the catch block.               *)
loadWidgetContent(el, ok) ==
    IF ok /\ el.type \in WidgetModules
    THEN [el EXCEPT !.content = "instance"]
    ELSE [el EXCEPT !.content = "error"]

(* instance.setConfig(config): the merged configuration is dispatched as a  *)
(* widget-config-changed event                                               *)
setConfig(el, config) == [el EXCEPT !.signal = Merge(InstanceDefaults, config)]

(* renderWidget: a new container is appended to the grid container *)
renderWidget(els, eid, wd) == Append(els, NewElement(eid, wd))

(* renderAllWidgets on an empty container: one container per record, in order *)
RECURSIVE RenderFrom(_, _)
RenderFrom(ws, i) ==
    IF i > Len(ws) THEN << >>
    ELSE << NewElement(i, ws[i]) >> \o RenderFrom(ws, i + 1)

renderAllWidgets(ws) == RenderFrom(ws, 1)

(* container.querySelector(`[data-widget-id="${id}"]`): first in document order *)
QueryElement(els, id) ==
    IF \E i \in Indices(els) : els[i].id = id
    THEN CHOOSE i \in Indices(els) :
            els[i].id = id /\ \A j \in 1..(i - 1) : els[j].id # id
    ELSE 0

(* The element a gesture holds on to, by identity; 0 once it is detached *)
ElementByEid(els, eid) ==
    IF \E i \in Indices(els) : els[i].eid = eid
    THEN CHOOSE i \in Indices(els) : els[i].eid = eid
    ELSE 0

updateWidgetElement(els, wd) ==
    LET i == QueryElement(els, wd.id)
        placed == updateWidgetPosition(els[i], wd)
    IN  IF i = 0 THEN els
        ELSE [els EXCEPT ![i] = IF els[i].content = "instance" /\ "config" \in DOMAIN wd
                                THEN setConfig(placed, wd.config)
                                ELSE placed]

(* destroy() runs only when the instance is already stored on the element *)
removeWidgetElement(els, id) ==
    LET i == QueryElement(els, id)
    IN  IF i = 0 THEN els
        ELSE [els EXCEPT ![i].exiting = TRUE,
                         ![i].destroyed = (els[i].destroyed \/ els[i].content = "instance")]

(* getComputedStyle(element).gridColumnStart / gridColumnEnd as tokens *)
ComputedStart(line) ==
    IF line = Auto THEN [kw |-> "auto"] ELSE [int |-> line.start]

ComputedEnd(line) ==
    IF line = Auto THEN [kw |-> "auto"] ELSE [kw |-> "span", n |-> line.span]

(* parseInt of such a token: only a leading integer parses *)
parseInt(tok) == IF "int" \in DOMAIN tok THEN tok.int ELSE NaN

----------------------------------------------------------------------------
(* State Manager operations together with the Grid Engine's subscribers.    *)
(* Each returns the new widget list and the new container children.         *)

(* An updateWidget that emits widget-updated before it looks the id up *)
updateWidgetEmitFirst(ws, els, id, updates) ==
    LET i == FindIndex(ws, id)
        nw == IF i = 0 THEN updates ELSE Merge(ws[i], updates)
        evs == << [topic |-> "widget-updated",
                   data |-> [widget |-> nw, updates |-> updates]] >>
    IN  IF i = 0
        THEN [widgets |-> ws, elements |-> els, ok |-> FALSE, events |-> evs]
        ELSE [widgets |-> [ws EXCEPT ![i] = nw],
              elements |-> updateWidgetElement(els, nw),
              ok |-> TRUE, events |-> evs]

updateWidget(ws, els, id, updates) ==
    LET i == FindIndex(ws, id)
    IN  IF i = 0
        THEN [widgets |-> ws, elements |-> els, ok |-> FALSE, events |-> NoEvents]
        ELSE LET nw == Merge(ws[i], updates)
             IN  [widgets |-> [ws EXCEPT ![i] = nw],
                  elements |-> updateWidgetElement(els, nw),
                  ok |-> TRUE,
                  events |-> << [topic |-> "widget-updated",
                                 data |-> [widget |-> nw, old |-> ws[i],
                                           updates |-> updates]] >>]

moveWidget(ws, els, id, position) == updateWidget(ws, els, id, position)

resizeWidget(ws, els, id, size) == updateWidget(ws, els, id, size)

(* A removeWidget that fills the hole with the last record of the list *)
removeWidgetSwapLast(ws, els, id) ==
    LET i == FindIndex(ws, id)
    IN  IF i = 0
        THEN [widgets |-> ws, elements |-> els, ok |-> FALSE, events |-> NoEvents]
        ELSE [widgets |-> RemoveAt([ws EXCEPT ![i] = ws[Len(ws)], ![Len(ws)] = ws[i]],
                                   Len(ws)),
              elements |-> removeWidgetElement(els, id),
              ok |-> TRUE,
              events |-> << [topic |-> "widget-removed", data |-> ws[i]] >>]

removeWidget(ws, els, id) ==
    LET i == FindIndex(ws, id)
    IN  IF i = 0
        THEN [widgets |-> ws, elements |-> els, ok |-> FALSE, events |-> NoEvents]
        ELSE [widgets |-> RemoveAt(ws, i),
              elements |-> removeWidgetElement(els, id),
              ok |-> TRUE,
              events |-> << [topic |-> "widget-removed", data |-> ws[i]] >>]

(* The record addWidget builds from the caller's partial:                   *)
(* { id: generated, ...widgetData, x, y, w, h }                              *)
addWidgetRecord(ws, c, p) ==
    LET base == Merge(Merge([id |-> generateWidgetId(ws, p.type)], p),
                      [x |-> FieldOr(p, "x", 0),
                       y |-> FieldOr(p, "y", 0),
                       w |-> FieldOr(p, "w", DefaultW),
                       h |-> FieldOr(p, "h", DefaultH)])
        search == FieldFalsy(p, "x") /\ FieldFalsy(p, "y")
        position == findEmptyPosition(ws, c, base.w, base.h)
    IN  [widget |-> IF search
                    THEN [base EXCEPT !.x = position.x, !.y = position.y]
                    ELSE base,
         searched |-> search,
         found |-> search /\ position.found]

(* A duplicateWidget that never looks for an empty position *)
duplicateRecordNeverSearch(ws, c, wd) ==
    [widget |-> [wd EXCEPT !.id = generateWidgetId(ws, wd.type),
                           !.x = JsAdd(wd.x, wd.w)],
     searched |-> FALSE,
     found |-> FALSE]

(* The record duplicateWidget builds from an existing record *)
duplicateRecord(ws, c, wd) ==
    LET dup == [wd EXCEPT !.id = generateWidgetId(ws, wd.type),
                          !.x = JsAdd(wd.x, wd.w)]
        search == JsGt(JsAdd(dup.x, dup.w), c)
        position == findEmptyPosition(ws, c, dup.w, dup.h)
    IN  [widget |-> IF search
                    THEN [dup EXCEPT !.x = position.x, !.y = position.y]
                    ELSE dup,
         searched |-> search,
         found |-> search /\ position.found]

(* A JavaScript value handed to importLayout as data.widgets: an array is  *)
(* [type |-> "array", items |-> sequence]; anything else has another type. *)
JsArray(items) == [type |-> "array", items |-> items]

IsArray(v) == v # Null /\ v.type = "array"

(* The id "" *)
EmptyId == << >>

(* widget.id is truthy *)
IdTruthy(wd) == "id" \in DOMAIN wd /\ wd.id # EmptyId

(* !layoutData.widgets || !Array.isArray(layoutData.widgets) is false *)
ValidLayout(data) == "widgets" \in DOMAIN data /\ IsArray(data.widgets)

(* layoutData.widgets.map(widget => ({...widget, id: widget.id ||          *)
(* generateWidgetId(widget.type)})): ws is this.state.widgets, which is     *)
(* still the list from before the import while map runs.                    *)
importWidgets(ws, items) ==
    [i \in DOMAIN items |->
        Merge(items[i],
              [id |-> IF IdTruthy(items[i]) THEN items[i].id
                      ELSE generateWidgetId(ws, items[i].type)])]

(* An importLayout that merges the grid and theme of the data before it    *)
(* looks at data.widgets                                                    *)
importLayoutMergeFirst(ws, c, th, data) ==
    LET nc == IF "grid" \in DOMAIN data THEN data.grid.cols ELSE c
        nth == IF "theme" \in DOMAIN data THEN data.theme ELSE th
    IN  IF ValidLayout(data)
        THEN [ok |-> TRUE,
              widgets |-> importWidgets(ws, data.widgets.items),
              cols |-> nc, theme |-> nth,
              events |-> << [topic |-> "layout-imported",
                             data |-> [layout |-> data,
                                       backup |-> [cols |-> c, widgets |-> ws,
                                                   theme |-> th]]] >>]
        ELSE [ok |-> FALSE, widgets |-> ws, cols |-> nc, theme |-> nth,
              events |-> << [topic |-> "import-error", data |-> "Error"] >>]

(* importLayout: the new grid columns, widget list and theme, the return   *)
(* value and the event emitted.                                             *)
importLayout(ws, c, th, data) ==
    IF ValidLayout(data)
    THEN [ok |-> TRUE,
          widgets |-> importWidgets(ws, data.widgets.items),
          cols |-> IF "grid" \in DOMAIN data THEN data.grid.cols ELSE c,
          theme |-> IF "theme" \in DOMAIN data THEN data.theme ELSE th,
          events |-> << [topic |-> "layout-imported",
                         data |-> [layout |-> data,
                                   backup |-> [cols |-> c, widgets |-> ws,
                                               theme |-> th]]] >>]
    ELSE [ok |-> FALSE, widgets |-> ws, cols |-> c, theme |-> th,
          events |-> << [topic |-> "import-error", data |-> "Error"] >>]

(* exportLayout: the object returned *)
exportLayout(ws, c, th) ==
    [grid |-> [cols |-> c], widgets |-> JsArray(ws), theme |-> th]

(* JSON.stringify writes NaN as null; null in a numeric field *)
JsonNull == NaN + 1

JsonNumber(v) == IF IsNaN(v) THEN JsonNull ELSE v

JsonWidget(wd) ==
    [f \in DOMAIN wd |->
        IF f \in {"x", "y", "w", "h"} THEN JsonNumber(wd[f]) ELSE wd[f]]

(* JSON.parse(JSON.stringify({...this.state, savedAt})): the document the   *)
(* Persistent Store holds after a write                                     *)
JSONstringify(c, ws, th) ==
    [grid |-> [cols |-> c],
     widgets |-> JsArray([i \in DOMAIN ws |-> JsonWidget(ws[i])]),
     theme |-> th]

(* A stored text JSON.parse throws on *)
Unparseable == [unparseable |-> TRUE]

(* saveState with the state (c, ws, th): the new store entry and the event  *)
(* emitted; ok is whether localStorage.setItem returned or threw.           *)
(* savedAt: the time of a write differs from the time of the write whose   *)
(* entry it replaces; two values are told apart.                            *)
NextStamp(st) ==
    IF st # Null /\ st # Unparseable /\ "savedAt" \in DOMAIN st
    THEN 1 - st.savedAt
    ELSE 0

(* A saveState that reports a write it did not make *)
saveStateNoWrite(c, ws, th, st, ok) ==
    IF ok
    THEN [store |-> st,
          events |-> << [topic |-> "state-saved", data |-> JSONstringify(c, ws, th)] >>]
    ELSE [store |-> st,
          events |-> << [topic |-> "save-error", data |-> "Error"] >>]

(* A saveState that swallows a failed write without an event *)
saveStateSilentFailure(c, ws, th, st, ok) ==
    IF ok
    THEN [store |-> Merge(JSONstringify(c, ws, th), [savedAt |-> NextStamp(st)]),
          events |-> << [topic |-> "state-saved",
                         data |-> Merge(JSONstringify(c, ws, th),
                                        [savedAt |-> NextStamp(st)])] >>]
    ELSE [store |-> st, events |-> NoEvents]

saveState(c, ws, th, st, ok) ==
    LET stateToSave == Merge(JSONstringify(c, ws, th), [savedAt |-> NextStamp(st)])
    IN  IF ok
        THEN [store |-> stateToSave,
              events |-> << [topic |-> "state-saved", data |-> stateToSave] >>]
        ELSE [store |-> st,
              events |-> << [topic |-> "save-error", data |-> "Error"] >>]

(* A loadState that merges the parsed snapshot before it looks at its      *)
(* widgets                                                                  *)
loadStateMergeFirst(st) ==
    LET default == [cols |-> DefaultCols, widgets |-> DefaultWidgets,
                    theme |-> DefaultTheme]
    IN  IF st = Null THEN [state |-> default, events |-> NoEvents]
        ELSE IF st = Unparseable
        THEN [state |-> default,
              events |-> << [topic |-> "load-error", data |-> "SyntaxError"] >>]
        ELSE LET loaded ==
                    [cols |-> IF "grid" \in DOMAIN st THEN st.grid.cols ELSE DefaultCols,
                     widgets |-> IF ValidLayout(st)
                                 THEN importWidgets(DefaultWidgets, st.widgets.items)
                                 ELSE DefaultWidgets,
                     theme |-> IF "theme" \in DOMAIN st THEN st.theme ELSE DefaultTheme]
             IN  [state |-> loaded,
                  events |-> << [topic |-> "state-loaded", data |-> loaded] >>]

(* loadState on the entry st of the Persistent Store, run by the           *)
(* constructor on the default state: the state after it and the event it   *)
(* emitted.                                                                 *)
loadState(st) ==
    LET default == [cols |-> DefaultCols, widgets |-> DefaultWidgets,
                    theme |-> DefaultTheme]
    IN  IF st = Null THEN [state |-> default, events |-> NoEvents]
        ELSE IF st = Unparseable
        THEN [state |-> default,
              events |-> << [topic |-> "load-error", data |-> "SyntaxError"] >>]
        ELSE IF ValidLayout(st)
        THEN LET loaded ==
                    [cols |-> IF "grid" \in DOMAIN st THEN st.grid.cols ELSE DefaultCols,
                     widgets |-> importWidgets(DefaultWidgets, st.widgets.items),
                     theme |-> IF "theme" \in DOMAIN st THEN st.theme ELSE DefaultTheme]
             IN  [state |-> loaded,
                  events |-> << [topic |-> "state-loaded", data |-> loaded] >>]
        ELSE [state |-> default, events |-> NoEvents]

----------------------------------------------------------------------------
(* Grid Engine: pure parts *)

(* An intersection test that lets rectangles share their boundary cells *)
rectsIntersectInterior(x1, y1, w1, h1, x2, y2, w2, h2) ==
    ~ ( \/ JsLe(JsSub(JsAdd(x1, w1), 1), x2)
        \/ JsLe(JsSub(JsAdd(x2, w2), 1), x1)
        \/ JsLe(JsSub(JsAdd(y1, h1), 1), y2)
        \/ JsLe(JsSub(JsAdd(y2, h2), 1), y1) )

rectsIntersect(x1, y1, w1, h1, x2, y2, w2, h2) ==
    ~ ( \/ JsLe(JsAdd(x1, w1), x2)
        \/ JsLe(JsAdd(x2, w2), x1)
        \/ JsLe(JsAdd(y1, h1), y2)
        \/ JsLe(JsAdd(y2, h2), y1) )

(* widgets.some(...) over the widgets whose id is not excludeId *)
hasCollision(ws, x, y, w, h, excludeId) ==
    \E i \in Indices(ws) :
        /\ ws[i].id # excludeId
        /\ rectsIntersect(x, y, w, h, ws[i].x, ws[i].y, ws[i].w, ws[i].h)

(* A push-down that tests the rows below the start only *)
PushDownFromNextRow(ws, x, y, w, h, excludeId) ==
    LET free(k) == ~hasCollision(ws, x, JsAdd(y, k), w, h, excludeId)
        tries == 1..(MaxAttempts - 1)
        attempts == IF \E k \in tries : free(k)
                    THEN CHOOSE k \in tries : free(k) /\ \A j \in 1..(k - 1) : ~free(j)
                    ELSE MaxAttempts
    IN  [x |-> x, y |-> JsAdd(y, attempts)]

(* The push-down loop: y grows by one per attempt until nothing collides or *)
(* MaxAttempts attempts are spent.                                           *)
PushDown(ws, x, y, w, h, excludeId) ==
    LET free(k) == ~hasCollision(ws, x, JsAdd(y, k), w, h, excludeId)
        tries == 0..(MaxAttempts - 1)
        attempts == IF \E k \in tries : free(k)
                    THEN CHOOSE k \in tries : free(k) /\ \A j \in 0..(k - 1) : ~free(j)
                    ELSE MaxAttempts
    IN  [x |-> x, y |-> JsAdd(y, attempts)]

validatePosition(ws, c, x, y, w, h, excludeId) ==
    LET cx == MathMax(0, MathMin(x, JsSub(c, w)))
        cy == MathMax(0, y)
    IN  PushDown(ws, cx, cy, w, h, excludeId)

validateResize(c, x, y, w, h) ==
    LET vw == MathMax(1, w)
        vh == MathMax(1, h)
    IN  [x |-> MathMax(0, MathMin(x, JsSub(c, vw))),
         y |-> MathMax(0, y),
         w |-> vw,
         h |-> vh]

(* getGridCellWidth() + gap = (clientWidth + gap) / cols, so a horizontal    *)
(* pixel distance px is Math.round(px * cols / (clientWidth + gap)) cells.   *)
PixelsToCols(px, c) == MathRoundDiv(px * c, ContainerWidth + Gap)

PixelsToRows(px) == MathRoundDiv(px, RowHeight + Gap)

(* relX, relY: screen position relative to the container's top-left corner *)
screenToGrid(relX, relY, c) ==
    [x |-> MathMax(0, PixelsToCols(relX, c)),
     y |-> MathMax(0, PixelsToRows(relY))]

(* Where the layout puts a container: its grid line times the cell pitch.    *)
(* A container without a valid inline grid line is auto-placed (cell given). *)
LayoutLeft(el, c, autoCell) ==
    ((IF el.col = Auto THEN autoCell ELSE el.col.start - 1) * (ContainerWidth + Gap)) \div c

LayoutTop(el, autoCell) ==
    (IF el.row = Auto THEN autoCell ELSE el.row.start - 1) * (RowHeight + Gap)

Handles == {"n", "e", "s", "w", "nw", "ne", "sw", "se"}

(* The switch of updateResize: new size and position before validation *)
resizeCandidate(handle, os, op, dgx, dgy) ==
    LET east  == handle \in {"e", "se", "ne"}
        west  == handle \in {"w", "sw", "nw"}
        south == handle \in {"s", "se", "sw"}
        north == handle \in {"n", "ne", "nw"}
    IN  [w |-> IF east THEN MathMax(1, JsAdd(os.w, dgx))
               ELSE IF west THEN MathMax(1, JsSub(os.w, dgx))
               ELSE os.w,
         h |-> IF south THEN MathMax(1, JsAdd(os.h, dgy))
               ELSE IF north THEN MathMax(1, JsSub(os.h, dgy))
               ELSE os.h,
         x |-> IF west THEN MathMax(0, JsAdd(op.x, dgx)) ELSE op.x,
         y |-> IF north THEN MathMax(0, JsAdd(op.y, dgy)) ELSE op.y]

(* The geometry endResize reads back from the computed style of the element *)
computedGeometry(el) ==
    LET gridColumn    == ComputedStart(el.col)
        gridColumnEnd == ComputedEnd(el.col)
        gridRow       == ComputedStart(el.row)
        gridRowEnd    == ComputedEnd(el.row)
    IN  [x |-> JsSub(parseInt(gridColumn), 1),
         y |-> JsSub(parseInt(gridRow), 1),
         w |-> JsSub(parseInt(gridColumnEnd), parseInt(gridColumn)),
         h |-> JsSub(parseInt(gridRowEnd), parseInt(gridRow))]

(* A detached element has no computed grid lines *)
DetachedElement == [col |-> Auto, row |-> Auto]

----------------------------------------------------------------------------
(* Inputs of the model *)

(* Snapshots a previous session may have left in the Persistent Store *)
StoredSnapshots ==
    { [cols |-> 12, widgets |-> << >>],
      [cols |-> 12, widgets |->
          << [id |-> <<"links", 1>>, type |-> "links", x |-> 0, y |-> 0, w |-> 12, h |-> 2] >>],
      [cols |-> 12, widgets |->
          << [id |-> <<"clock", 1>>, type |-> "clock", x |-> 0, y |-> 0, w |-> 3, h |-> 2],
             [id |-> <<"notes", 1>>, type |-> "notes", x |-> 3, y |-> 0, w |-> 3, h |-> 2] >>],
      [cols |-> 4, widgets |->
          << [id |-> <<"clock", 1>>, type |-> "clock", x |-> 0, y |-> 0, w |-> 2, h |-> 1],
             [id |-> <<"notes", 1>>, type |-> "notes", x |-> 2, y |-> 0, w |-> 2, h |-> 2],
             [id |-> <<"clock", 2>>, type |-> "clock", x |-> 0, y |-> 1, w |-> 1, h |-> 1] >>],
      [cols |-> 4, widgets |->
          << [id |-> <<"notes", 1>>, type |-> "notes", x |-> 0, y |-> 0, w |-> 4, h |-> 100],
             [id |-> <<"clock", 1>>, type |-> "clock", x |-> 0, y |-> 100, w |-> 1, h |-> 2] >>] }

(* Every stored list of at most two widgets on a three-column grid whose     *)
(* rectangles are one row high and lie in rows 0..1; the lists may overlap,  *)
(* as a list stored after a keyboard move may.                               *)
SmallCols == 3

SmallRects ==
    { r \in [x : 0..(SmallCols - 1), y : 0..1, w : 1..SmallCols, h : {1}] :
        r.x + r.w <= SmallCols }

RectRank(r) == ((r.x * 4 + r.w) * 4 + r.y) * 4 + r.h

SmallWidget(type, r) ==
    [id |-> <<type, 1>>, type |-> type, x |-> r.x, y |-> r.y, w |-> r.w, h |-> r.h]

SmallLayouts ==
    { [cols |-> SmallCols, widgets |-> << SmallWidget("clock", r) >>] : r \in SmallRects }
    \cup
    { [cols |-> SmallCols,
       widgets |-> << SmallWidget("clock", pr[1]), SmallWidget("notes", pr[2]) >>] :
         pr \in { q \in SmallRects \X SmallRects : RectRank(q[1]) <= RectRank(q[2]) } }

(* Partials handed to addWidget: the application's own call carries only    *)
(* the type; the State Manager accepts any partial.                          *)
Partials ==
    { [type |-> "clock"],
      [type |-> "clock", x |-> 1, y |-> 0],
      [type |-> "clock", id |-> <<"clock", 1>>] }

(* Partials without a position, of several sizes *)
SizedPartials ==
    { [type |-> "clock"],
      [type |-> "notes", w |-> 1, h |-> 1],
      [type |-> "notes", w |-> 2, h |-> 3],
      [type |-> "links", w |-> 4, h |-> 1] }

(* Containers the user points at or focuses, by position in the container:  *)
(* the first one and the first one added in the session.                     *)
TargetSlots == {1, Len(DefaultWidgets) + 1}

(* Containers focused in the keyboard-only runs *)
KeySlots == {1, 2, 5}

Targets == { i \in Indices(elements) : i \in TargetSlots }

KeyEvents ==
    { [key |-> "ArrowRight", ctrl |-> FALSE, shift |-> FALSE],
      [key |-> "ArrowRight", ctrl |-> TRUE,  shift |-> FALSE],
      [key |-> "ArrowDown",  ctrl |-> TRUE,  shift |-> FALSE],
      [key |-> "ArrowUp",    ctrl |-> FALSE, shift |-> FALSE],
      [key |-> "Delete",     ctrl |-> FALSE, shift |-> TRUE] }

(* Layout objects handed to importLayout: widgets without an id, widgets   *)
(* with one, a grid and a theme of their own, and objects whose widgets     *)
(* entry is missing, null or not a list.                                    *)
ImportData ==
    { [widgets |-> JsArray(<<
          [type |-> "clock", x |-> 0, y |-> 0, w |-> 3, h |-> 2,
             config |-> [title |-> "Clock"]],
          [type |-> "clock", x |-> 3, y |-> 0, w |-> 3, h |-> 2,
             config |-> [title |-> "Clock"]] >>)],
      [grid |-> [cols |-> 4], theme |-> "dark",
       widgets |-> JsArray(<<
          [id |-> <<"notes", 2>>, type |-> "notes", x |-> 0, y |-> 0, w |-> 2, h |-> 2,
             config |-> [title |-> "Notes"]],
          [type |-> "notes", x |-> 2, y |-> 0, w |-> 2, h |-> 2,
             config |-> [title |-> "Notes"]] >>)],
      [theme |-> "dark",
       widgets |-> JsArray(<<
          [id |-> <<"todo", 7>>, type |-> "todo", x |-> 0, y |-> 0, w |-> 6, h |-> 2,
             config |-> [title |-> "Todo List"]],
          [type |-> "clock", x |-> 6, y |-> 0, w |-> 3, h |-> 2,
             config |-> [title |-> "Clock"]] >>)],
      [widgets |-> JsArray(<< >>)],
      [grid |-> [cols |-> 4], theme |-> "dark"],
      [grid |-> [cols |-> 4], theme |-> "dark", widgets |-> Null],
      [grid |-> [cols |-> 4], theme |-> "dark", widgets |-> [type |-> "object"]] }

(* addWidget calls whose partial carries the empty string as id, or no id *)
IdPartials ==
    { [type |-> "clock", id |-> EmptyId, config |-> [title |-> "Clock"]],
      [type |-> "notes", config |-> [title |-> "Notes"]] }

(* Ids handed to the State Manager: two of the default layout (a clone of  *)
(* clock-1 fits beside it, a clone of todo-1 does not) and one of no widget *)
ApiIds == { <<"clock", 1>>, <<"todo", 1>>, <<"clock", 9>> }

ApiUpdates == { [config |-> [title |-> "Renamed"]] }

ApiPositions == { [x |-> 0, y |-> 7] }

ApiSizes == { [w |-> 2, h |-> 1] }

(* addWidget partials with and without coordinates, 0 among them *)
XYPartials ==
    { [type |-> "clock", config |-> [title |-> "Clock"]],
      [type |-> "clock", x |-> 0, y |-> 0],
      [type |-> "notes", x |-> 0, y |-> 7],
      [type |-> "notes", x |-> 3, y |-> 0],
      [type |-> "clock", x |-> 0],
      [type |-> "notes", y |-> 9] }

(* Handlers a client of the State Manager subscribes, and the topics it    *)
(* subscribes them to.                                                      *)
BusHandlers == { "h1", "h2" }

BusTopics == { "widget-added", "*" }

BusPartials == { [type |-> "clock", config |-> [title |-> "Clock"]] }

BusIds == { <<"clock", 1>> }

(* Themes set through setTheme *)
Themes == { "dark" }

(* Topics a handler subscribes to after the module is loaded *)
LoadTopics == { "load-error", "*" }

(* Layouts imported before a reset: those that carry a grid of their own *)
GridImports == { d \in ImportData : "grid" \in DOMAIN d }

(* The keyboard move and resize shortcuts *)
ArrowEvents == { e \in KeyEvents : e.key # "Delete" }

(* The application's own addWidget call: the type and nothing else *)
TypePartials ==
    { [type |-> "clock", config |-> [title |-> "Clock"]],
      [type |-> "notes", config |-> [title |-> "Notes"]] }

PointerParts == {"header", "e", "nw"}

(* Pointer displacement since pointer-down, in pixels *)
PointerDX == {0, 100, 1000}

PointerDY == {0, 68}

(* Cells at which the layout may auto-place a container without grid lines *)
AutoCells == {0, 1}

----------------------------------------------------------------------------
(* Initial state: the default state overlaid with the stored snapshot, if    *)
(* any, then rendered by renderAllWidgets.                                   *)

InitWith(c, ws) ==
    /\ cols = c
    /\ widgets = ws
    /\ elements = renderAllWidgets(ws)
    /\ nextEid = Len(ws) + 1
    /\ isDragging = FALSE
    /\ isResizing = FALSE
    /\ dragData = Null
    /\ resizeData = Null
    /\ ghost = Null
    /\ issued = << >>
    /\ gestureStart = Null
    /\ listeners = InitialListeners
    /\ tokens = << >>
    /\ live = {}
    /\ events = << >>
    /\ debounceTimeout = "null"
    /\ writes = 0
    /\ theme = DefaultTheme
    /\ last = [op |-> "init"]
    /\ steps = 0

(* First run: nothing stored *)
Init == InitWith(DefaultCols, DefaultWidgets) /\ store = Null

(* What localStorage.getItem('dashboard-state') may return when the module  *)
(* is loaded: nothing, a text JSON.parse rejects, or a parsed document.      *)
StoreContents == { Null, Unparseable } \cup ImportData

(* new StateManager() with raw in the Persistent Store, then the           *)
(* application's start: its subscriptions and the Grid Engine's first       *)
(* render. loadState runs before the constructor's own subscribe call, so   *)
(* what it emits meets an empty listener map.                               *)
Constructed(raw) ==
    LET r == loadState(raw)
    IN  /\ cols = r.state.cols
        /\ widgets = r.state.widgets
        /\ theme = r.state.theme
        /\ elements = renderAllWidgets(r.state.widgets)
        /\ nextEid = Len(r.state.widgets) + 1
        /\ isDragging = FALSE
        /\ isResizing = FALSE
        /\ dragData = Null
        /\ resizeData = Null
        /\ ghost = Null
        /\ issued = << >>
        /\ gestureStart = Null
        /\ listeners = InitialListeners
        /\ tokens = << >>
        /\ live = {}
        /\ events = [i \in DOMAIN r.events |->
                        emit(NoListeners, r.events[i], r.state.widgets)]
        /\ debounceTimeout = "null"
        /\ store = raw
        /\ writes = 0
        /\ last = [op |-> "construct", raw |-> raw]
        /\ steps = 0

InitLoad == \E raw \in StoreContents : Constructed(raw)

(* A later run: a snapshot is stored *)
InitStored ==
    \E snap \in StoredSnapshots \cup SmallLayouts :
        /\ InitWith(snap.cols, snap.widgets)
        /\ store = JSONstringify(snap.cols, snap.widgets, DefaultTheme)

----------------------------------------------------------------------------
(* Keyboard path: what the keydown handler asks of the State Manager *)

keyRequest(wd, e, c) ==
    LET update(u) == [kind |-> "update", updates |-> u]
        none == [kind |-> "none"]
    IN  CASE e.key = "ArrowLeft" ->
                IF e.ctrl
                THEN IF JsGt(wd.w, 1) THEN update([w |-> JsSub(wd.w, 1)]) ELSE none
                ELSE IF JsGt(wd.x, 0) THEN update([x |-> JsSub(wd.x, 1)]) ELSE none
          [] e.key = "ArrowRight" ->
                IF e.ctrl
                THEN IF JsLe(JsAdd(JsAdd(wd.x, wd.w), 1), c)
                     THEN update([w |-> JsAdd(wd.w, 1)]) ELSE none
                ELSE IF JsLt(JsAdd(wd.x, wd.w), c)
                     THEN update([x |-> JsAdd(wd.x, 1)]) ELSE none
          [] e.key = "ArrowUp" ->
                IF e.ctrl
                THEN IF JsGt(wd.h, 1) THEN update([h |-> JsSub(wd.h, 1)]) ELSE none
                ELSE IF JsGt(wd.y, 0) THEN update([y |-> JsSub(wd.y, 1)]) ELSE none
          [] e.key = "ArrowDown" ->
                IF e.ctrl
                THEN update([h |-> JsAdd(wd.h, 1)])
                ELSE update([y |-> JsAdd(wd.y, 1)])
          [] e.key \in {"Delete", "Backspace"} ->
                IF e.shift THEN [kind |-> "remove"] ELSE none
          [] OTHER -> none

(* keydown with the container at position i focused *)
KeyDown(i, e) ==
    /\ steps < MaxSteps
    /\ i \in Indices(elements)
    /\ LET widgetId == elements[i].id
           k == FindIndex(widgets, widgetId)
           req == IF k = 0 THEN [kind |-> "none"] ELSE keyRequest(widgets[k], e, cols)
           r == CASE req.kind = "update" -> updateWidget(widgets, elements, widgetId, req.updates)
                  [] req.kind = "remove" -> removeWidget(widgets, elements, widgetId)
                  [] OTHER -> [widgets |-> widgets, elements |-> elements, ok |-> FALSE,
                   events |-> NoEvents]
       IN  /\ widgets' = r.widgets
           /\ elements' = r.elements
           /\ Publish(r.events)
           /\ last' = [op |-> "keydown", id |-> widgetId, key |-> e.key,
                       ctrl |-> e.ctrl, kind |-> req.kind]
    /\ steps' = steps + 1
    /\ UNCHANGED << cols, isDragging, isResizing, dragData, resizeData, ghost,
                    nextEid, issued, gestureStart, listeners, tokens, live,
                    store, writes, theme >>

----------------------------------------------------------------------------
(* Pointer gestures *)

startDrag(el, widgetData, acx, acy) ==
    /\ isDragging' = TRUE
    /\ dragData' = [widgetId |-> el.id,
                    widget |-> widgetData,
                    element |-> el.eid,
                    left |-> LayoutLeft(el, cols, acx),
                    top |-> LayoutTop(el, acy),
                    originalPosition |-> [x |-> widgetData.x, y |-> widgetData.y]]
    /\ ghost' = [x |-> widgetData.x, y |-> widgetData.y,
                 w |-> widgetData.w, h |-> widgetData.h]
    /\ UNCHANGED << isResizing, resizeData >>

(* A startResize that records the gesture without raising the flag *)
startResizeWithoutFlag(el, widgetData, handle) ==
    /\ resizeData' = [widgetId |-> el.id,
                      widget |-> widgetData,
                      element |-> el.eid,
                      handle |-> handle,
                      originalSize |-> [w |-> widgetData.w, h |-> widgetData.h],
                      originalPosition |-> [x |-> widgetData.x, y |-> widgetData.y]]
    /\ UNCHANGED << isDragging, isResizing, dragData, ghost >>

startResize(el, widgetData, handle) ==
    /\ isResizing' = TRUE
    /\ resizeData' = [widgetId |-> el.id,
                      widget |-> widgetData,
                      element |-> el.eid,
                      handle |-> handle,
                      originalSize |-> [w |-> widgetData.w, h |-> widgetData.h],
                      originalPosition |-> [x |-> widgetData.x, y |-> widgetData.y]]
    /\ UNCHANGED << isDragging, dragData, ghost >>

(* pointerdown on the header ("header") or on a resize handle of container i *)
PointerDown(i, part, acx, acy) ==
    /\ steps < MaxSteps
    /\ i \in Indices(elements)
    /\ part \in Handles \cup {"header"}
    /\ elements[i].col # Auto => acx = 0
    /\ elements[i].row # Auto => acy = 0
    /\ LET el == elements[i]
           k == FindIndex(widgets, el.id)
       IN  IF isDragging \/ isResizing \/ k = 0
           THEN /\ UNCHANGED << isDragging, isResizing, dragData, resizeData, ghost,
                                gestureStart >>
                /\ last' = [op |-> "pointerdown", started |-> "none"]
           ELSE IF part = "header"
           THEN /\ startDrag(el, widgets[k], acx, acy)
                /\ gestureStart' = widgets
                /\ last' = [op |-> "pointerdown", started |-> "drag"]
           ELSE /\ startResize(el, widgets[k], part)
                /\ gestureStart' = widgets
                /\ last' = [op |-> "pointerdown", started |-> "resize"]
    /\ Publish(NoEvents)
    /\ steps' = steps + 1
    /\ UNCHANGED << cols, widgets, elements, nextEid, issued, listeners, tokens,
                    live, store, writes, theme >>

(* The position a drag validates for the pointer displaced by (dx, dy) *)
dragCandidate(dx, dy) == screenToGrid(dragData.left + dx, dragData.top + dy, cols)

dragPosition(dx, dy) ==
    LET gridPos == dragCandidate(dx, dy)
    IN  validatePosition(widgets, cols, gridPos.x, gridPos.y,
                         dragData.widget.w, dragData.widget.h, dragData.widgetId)

(* The geometry a resize validates for the pointer displaced by (dx, dy) *)
resizeGeometry(dx, dy) ==
    LET cand == resizeCandidate(resizeData.handle, resizeData.originalSize,
                                resizeData.originalPosition,
                                PixelsToCols(dx, cols), PixelsToRows(dy))
    IN  validateResize(cols, cand.x, cand.y, cand.w, cand.h)

updateDrag(dx, dy) ==
    LET validatedPos == dragPosition(dx, dy)
    IN  /\ ghost' = [x |-> validatedPos.x, y |-> validatedPos.y,
                     w |-> dragData.widget.w, h |-> dragData.widget.h]
        /\ last' = [op |-> "pointermove", gesture |-> "drag"]
        /\ UNCHANGED elements

updateResize(dx, dy) ==
    LET validated == resizeGeometry(dx, dy)
        j == ElementByEid(elements, resizeData.element)
    IN  /\ elements' = IF j = 0 THEN elements
                       ELSE [elements EXCEPT ![j] = previewResize(elements[j], validated)]
        /\ last' = [op |-> "pointermove", gesture |-> "resize", validated |-> validated]
        /\ UNCHANGED ghost

PointerMove(dx, dy) ==
    /\ steps < MaxSteps
    /\ IF isDragging THEN updateDrag(dx, dy)
       ELSE IF isResizing THEN updateResize(dx, dy)
       ELSE /\ UNCHANGED << elements, ghost >>
            /\ last' = [op |-> "pointermove", gesture |-> "none"]
    /\ Publish(NoEvents)
    /\ steps' = steps + 1
    /\ UNCHANGED << cols, widgets, isDragging, isResizing, dragData, resizeData,
                    nextEid, issued, gestureStart, listeners, tokens, live,
                    store, writes, theme >>

(* An endDrag that compares the columns only *)
endDragComparesXOnly(dx, dy) ==
    LET finalPos == dragPosition(dx, dy)
        moved == JsStrictNe(finalPos.x, dragData.originalPosition.x)
        r == IF moved
             THEN moveWidget(widgets, elements, dragData.widgetId, finalPos)
             ELSE [widgets |-> widgets, elements |-> elements, ok |-> FALSE,
                   events |-> NoEvents]
    IN  /\ widgets' = r.widgets
        /\ elements' = r.elements
        /\ Publish(r.events)
        /\ ghost' = Null
        /\ isDragging' = FALSE
        /\ dragData' = Null
        /\ last' = [op |-> "pointerup", gesture |-> "drag", id |-> dragData.widgetId,
                    moved |-> moved, committed |-> r.ok, position |-> finalPos,
                    candidate |-> dragCandidate(dx, dy),
                    resolved |-> ~hasCollision(widgets, finalPos.x, finalPos.y,
                                               dragData.widget.w, dragData.widget.h,
                                               dragData.widgetId)]
        /\ UNCHANGED << isResizing, resizeData >>

endDrag(dx, dy) ==
    LET finalPos == dragPosition(dx, dy)
        moved == \/ JsStrictNe(finalPos.x, dragData.originalPosition.x)
                 \/ JsStrictNe(finalPos.y, dragData.originalPosition.y)
        r == IF moved
             THEN moveWidget(widgets, elements, dragData.widgetId, finalPos)
             ELSE [widgets |-> widgets, elements |-> elements, ok |-> FALSE,
                   events |-> NoEvents]
    IN  /\ widgets' = r.widgets
        /\ elements' = r.elements
        /\ Publish(r.events)
        /\ ghost' = Null
        /\ isDragging' = FALSE
        /\ dragData' = Null
        /\ last' = [op |-> "pointerup", gesture |-> "drag", id |-> dragData.widgetId,
                    moved |-> moved, committed |-> r.ok, position |-> finalPos,
                    candidate |-> dragCandidate(dx, dy),
                    resolved |-> ~hasCollision(widgets, finalPos.x, finalPos.y,
                                               dragData.widget.w, dragData.widget.h,
                                               dragData.widgetId)]
        /\ UNCHANGED << isResizing, resizeData >>

endResize ==
    LET j == ElementByEid(elements, resizeData.element)
        finalPos == computedGeometry(IF j = 0 THEN DetachedElement ELSE elements[j])
        hasChanged == \/ JsStrictNe(finalPos.x, resizeData.originalPosition.x)
                      \/ JsStrictNe(finalPos.y, resizeData.originalPosition.y)
                      \/ JsStrictNe(finalPos.w, resizeData.originalSize.w)
                      \/ JsStrictNe(finalPos.h, resizeData.originalSize.h)
        r == IF hasChanged
             THEN updateWidget(widgets, elements, resizeData.widgetId, finalPos)
             ELSE [widgets |-> widgets, elements |-> elements, ok |-> FALSE,
                   events |-> NoEvents]
    IN  /\ widgets' = r.widgets
        /\ elements' = IF j = 0 THEN r.elements
                       ELSE [r.elements EXCEPT ![j].col = Auto, ![j].row = Auto]
        /\ Publish(r.events)
        /\ isResizing' = FALSE
        /\ resizeData' = Null
        /\ last' = [op |-> "pointerup", gesture |-> "resize", id |-> resizeData.widgetId,
                    moved |-> hasChanged, committed |-> r.ok, position |-> finalPos]
        /\ UNCHANGED << isDragging, dragData, ghost >>

PointerUp(dx, dy) ==
    /\ steps < MaxSteps
    /\ IF isDragging THEN endDrag(dx, dy)
       ELSE IF isResizing THEN endResize
       ELSE /\ UNCHANGED << widgets, elements, isDragging, isResizing, dragData,
                            resizeData, ghost >>
            /\ Publish(NoEvents)
            /\ last' = [op |-> "pointerup", gesture |-> "none"]
    /\ gestureStart' = Null
    /\ steps' = steps + 1
    /\ UNCHANGED << cols, nextEid, issued, listeners, tokens, live, store, writes, theme >>

----------------------------------------------------------------------------
(* State Manager calls from the application and the context menu *)

AddWidget(p) ==
    /\ steps < MaxSteps
    /\ LET r == addWidgetRecord(widgets, cols, p)
       IN  /\ widgets' = Append(widgets, r.widget)
           /\ elements' = renderWidget(elements, nextEid, r.widget)
           /\ issued' = Append(issued, r.widget.id)
           /\ Publish(<< [topic |-> "widget-added", data |-> r.widget] >>)
           /\ last' = [op |-> "addWidget", partial |-> p, widget |-> r.widget,
                       searched |-> r.searched, found |-> r.found]
    /\ nextEid' = nextEid + 1
    /\ steps' = steps + 1
    /\ UNCHANGED << cols, isDragging, isResizing, dragData, resizeData, ghost,
                    gestureStart, listeners, tokens, live, store, writes, theme >>

(* "Duplicate" in the context menu of container i *)
DuplicateWidget(i) ==
    /\ steps < MaxSteps
    /\ i \in Indices(elements)
    /\ LET widgetId == elements[i].id
           k == FindIndex(widgets, widgetId)
       IN  IF k = 0
           THEN /\ UNCHANGED << widgets, elements, issued, nextEid >>
                /\ Publish(NoEvents)
                /\ last' = [op |-> "duplicateWidget", id |-> widgetId, ok |-> FALSE]
           ELSE LET r == duplicateRecord(widgets, cols, widgets[k])
                IN  /\ widgets' = Append(widgets, r.widget)
                    /\ elements' = renderWidget(elements, nextEid, r.widget)
                    /\ issued' = Append(issued, r.widget.id)
                    /\ nextEid' = nextEid + 1
                    /\ Publish(<< [topic |-> "widget-added", data |-> r.widget] >>)
                    /\ last' = [op |-> "duplicateWidget", id |-> widgetId, ok |-> TRUE,
                                widget |-> r.widget, searched |-> r.searched,
                                found |-> r.found]
    /\ steps' = steps + 1
    /\ UNCHANGED << cols, isDragging, isResizing, dragData, resizeData, ghost,
                    gestureStart, listeners, tokens, live, store, writes, theme >>

(* "Remove" in the context menu of container i *)
RemoveWidget(i) ==
    /\ steps < MaxSteps
    /\ i \in Indices(elements)
    /\ LET widgetId == elements[i].id
           r == removeWidget(widgets, elements, widgetId)
       IN  /\ widgets' = r.widgets
           /\ elements' = r.elements
           /\ Publish(r.events)
           /\ last' = [op |-> "removeWidget", id |-> widgetId, ok |-> r.ok]
    /\ steps' = steps + 1
    /\ UNCHANGED << cols, isDragging, isResizing, dragData, resizeData, ghost,
                    nextEid, issued, gestureStart, listeners, tokens, live,
                    store, writes, theme >>

(* state.updateWidget(id, updates), moveWidget(id, position) and           *)
(* resizeWidget(id, size) called with any id                                *)
UpdateCall(op, id, updates) ==
    /\ steps < MaxSteps
    /\ LET r == CASE op = "moveWidget"   -> moveWidget(widgets, elements, id, updates)
                  [] op = "resizeWidget" -> resizeWidget(widgets, elements, id, updates)
                  [] OTHER               -> updateWidget(widgets, elements, id, updates)
       IN  /\ widgets' = r.widgets
           /\ elements' = r.elements
           /\ Publish(r.events)
           /\ last' = [op |-> op, id |-> id, ret |-> r.ok]
    /\ steps' = steps + 1
    /\ UNCHANGED << cols, isDragging, isResizing, dragData, resizeData, ghost,
                    nextEid, issued, gestureStart, listeners, tokens, live,
                    store, writes, theme >>

UpdateWidgetCall(id, updates) == UpdateCall("updateWidget", id, updates)

MoveWidgetCall(id, position) == UpdateCall("moveWidget", id, position)

ResizeWidgetCall(id, size) == UpdateCall("resizeWidget", id, size)

(* state.removeWidget(id) called with any id *)
RemoveWidgetCall(id) ==
    /\ steps < MaxSteps
    /\ LET r == removeWidget(widgets, elements, id)
       IN  /\ widgets' = r.widgets
           /\ elements' = r.elements
           /\ Publish(r.events)
           /\ last' = [op |-> "removeWidget", id |-> id, ok |-> r.ok, ret |-> r.ok]
    /\ steps' = steps + 1
    /\ UNCHANGED << cols, isDragging, isResizing, dragData, resizeData, ghost,
                    nextEid, issued, gestureStart, listeners, tokens, live,
                    store, writes, theme >>

(* state.duplicateWidget(id) called with any id *)
DuplicateWidgetCall(id) ==
    /\ steps < MaxSteps
    /\ LET k == FindIndex(widgets, id)
       IN  IF k = 0
           THEN /\ UNCHANGED << widgets, elements, issued, nextEid >>
                /\ Publish(NoEvents)
                /\ last' = [op |-> "duplicateWidget", id |-> id, ok |-> FALSE,
                            ret |-> Null]
           ELSE LET r == duplicateRecord(widgets, cols, widgets[k])
                IN  /\ widgets' = Append(widgets, r.widget)
                    /\ elements' = renderWidget(elements, nextEid, r.widget)
                    /\ issued' = Append(issued, r.widget.id)
                    /\ nextEid' = nextEid + 1
                    /\ Publish(<< [topic |-> "widget-added", data |-> r.widget] >>)
                    /\ last' = [op |-> "duplicateWidget", id |-> id, ok |-> TRUE,
                                ret |-> r.widget, widget |-> r.widget,
                                searched |-> r.searched, found |-> r.found]
    /\ steps' = steps + 1
    /\ UNCHANGED << cols, isDragging, isResizing, dragData, resizeData, ghost,
                    gestureStart, listeners, tokens, live, store, writes, theme >>

(* state.subscribe(event, callback); the function returned is kept *)
Subscribe(event, callback) ==
    /\ steps < MaxSteps
    /\ listeners' = subscribe(listeners, event, callback)
    /\ tokens' = Append(tokens, [event |-> event, callback |-> callback])
    /\ live' = live \cup {Len(tokens) + 1}
    /\ Publish(NoEvents)
    /\ last' = [op |-> "subscribe", event |-> event, callback |-> callback]
    /\ steps' = steps + 1
    /\ UNCHANGED << cols, widgets, elements, isDragging, isResizing, dragData,
                    resizeData, ghost, nextEid, issued, gestureStart, store,
                    writes, theme >>

(* The function returned by the k-th subscribe call is called *)
Unsubscribe(k) ==
    /\ steps < MaxSteps
    /\ k \in DOMAIN tokens
    /\ listeners' = unsubscribe(listeners, tokens[k])
    /\ live' = live \ {k}
    /\ Publish(NoEvents)
    /\ last' = [op |-> "unsubscribe", k |-> k]
    /\ steps' = steps + 1
    /\ UNCHANGED << cols, widgets, elements, isDragging, isResizing, dragData,
                    resizeData, ghost, nextEid, issued, gestureStart, tokens,
                    store, writes, theme >>

(* renderAllWidgets on a container that had children before: the new      *)
(* containers are new elements.                                             *)
renderAllWidgetsFrom(ws, eid) ==
    [i \in DOMAIN ws |-> NewElement(eid + i - 1, ws[i])]

(* DashboardApp.importLayout(layout) with the dialog confirmed *)
ImportLayout(data) ==
    /\ steps < MaxSteps
    /\ LET r == importLayout(widgets, cols, theme, data)
       IN  /\ widgets' = r.widgets
           /\ cols' = r.cols
           /\ theme' = r.theme
           /\ elements' = IF r.ok THEN renderAllWidgetsFrom(r.widgets, nextEid)
                           ELSE elements
           /\ nextEid' = IF r.ok THEN nextEid + Len(r.widgets) ELSE nextEid
           /\ ghost' = IF r.ok THEN Null ELSE ghost
           /\ Publish(r.events)
           /\ last' = [op |-> "importLayout", data |-> data, ok |-> r.ok]
    /\ steps' = steps + 1
    /\ UNCHANGED << isDragging, isResizing, dragData, resizeData, issued,
                    gestureStart, listeners, tokens, live, store, writes >>

(* state.importLayout(state.exportLayout()) *)
ExportImport ==
    /\ steps < MaxSteps
    /\ LET layout == exportLayout(widgets, cols, theme)
           r == importLayout(widgets, cols, theme, layout)
       IN  /\ widgets' = r.widgets
           /\ cols' = r.cols
           /\ theme' = r.theme
           /\ events' = << emit(listeners, [topic |-> "layout-exported", data |-> layout],
                                 widgets) >>
                         \o [i \in DOMAIN r.events |-> emit(listeners, r.events[i], r.widgets)]
           /\ debounceTimeout' = IF SaveReached(events') THEN "pending"
                                  ELSE debounceTimeout
           /\ last' = [op |-> "exportImport", ok |-> r.ok,
                       again |-> importLayout(r.widgets, r.cols, r.theme,
                                              exportLayout(r.widgets, r.cols, r.theme)).widgets]
    /\ steps' = steps + 1
    /\ UNCHANGED << elements, nextEid, ghost, isDragging, isResizing, dragData,
                    resizeData, issued, gestureStart, listeners, tokens, live,
                    store, writes >>

(* The exit-transition timer of removeWidgetElement fires for container i *)
DetachExited(i) ==
    /\ i \in Indices(elements)
    /\ elements[i].exiting
    /\ elements' = RemoveAt(elements, i)
    /\ last' = [op |-> "detach"]
    /\ UNCHANGED << cols, widgets, isDragging, isResizing, dragData, resizeData,
                    ghost, nextEid, issued, gestureStart, listeners, tokens, live,
                    events, debounceTimeout, store, writes, theme, steps >>

(* The debounce timer fires: saveState writes the snapshot and emits        *)
(* state-saved, or save-error when the write throws; either event reaches   *)
(* the auto-save handler like any other event.                               *)
FireTimer(ok) ==
    /\ debounceTimeout = "pending"
    /\ LET r == saveState(cols, widgets, theme, store, ok)
       IN  /\ store' = r.store
           /\ events' = [i \in DOMAIN r.events |-> emit(listeners, r.events[i], widgets)]
    /\ debounceTimeout' = IF SaveReached(events') THEN "pending" ELSE "fired"
    /\ last' = [op |-> "timer", ok |-> ok]
    /\ UNCHANGED << cols, widgets, elements, isDragging, isResizing, dragData,
                    resizeData, ghost, nextEid, issued, gestureStart, listeners,
                    tokens, live, theme >>

TimerFire ==
    /\ steps < MaxSteps
    /\ FireTimer(TRUE)
    /\ writes' = writes + 1
    /\ steps' = steps + 1

(* The timer fires while the Persistent Store refuses the write *)
TimerFireFails ==
    /\ steps < MaxSteps
    /\ FireTimer(FALSE)
    /\ UNCHANGED writes
    /\ steps' = steps + 1

(* The timer fires after the last event the model lets the user make; the  *)
(* two history counters stay as they are.                                   *)
TimerFireLate ==
    /\ steps = MaxSteps
    /\ FireTimer(TRUE)
    /\ UNCHANGED << writes, steps >>

(* DashboardApp.resetLayout with the dialog confirmed: resetToDefault, then *)
(* renderAllWidgets; ok is whether the write of saveState succeeds.         *)
ResetToDefault(ok) ==
    /\ steps < MaxSteps
    /\ cols' = DefaultCols
    /\ widgets' = DefaultWidgets
    /\ theme' = DefaultTheme
    /\ LET backup == [cols |-> cols, widgets |-> widgets, theme |-> theme]
           r == saveState(DefaultCols, DefaultWidgets, DefaultTheme, store, ok)
       IN  /\ store' = r.store
           /\ Publish(<< [topic |-> "layout-reset", data |-> [backup |-> backup]] >>
                      \o r.events)
    /\ writes' = IF ok THEN writes + 1 ELSE writes
    /\ elements' = renderAllWidgetsFrom(DefaultWidgets, nextEid)
    /\ nextEid' = nextEid + Len(DefaultWidgets)
    /\ ghost' = Null
    /\ last' = [op |-> "resetToDefault", ok |-> ok]
    /\ steps' = steps + 1
    /\ UNCHANGED << isDragging, isResizing, dragData, resizeData, issued,
                    gestureStart, listeners, tokens, live >>

(* state.clearState(): ok is whether localStorage.removeItem returns. The    *)
(* Grid Engine has no handler for state-cleared, so the containers stay.     *)
ClearState(ok) ==
    /\ steps < MaxSteps
    /\ IF ok
       THEN /\ store' = Null
            /\ cols' = DefaultCols
            /\ widgets' = DefaultWidgets
            /\ theme' = DefaultTheme
            /\ Publish(<< [topic |-> "state-cleared", data |-> Null] >>)
       ELSE /\ UNCHANGED << store, cols, widgets, theme >>
            /\ Publish(<< [topic |-> "clear-error", data |-> "Error"] >>)
    /\ last' = [op |-> "clearState", ok |-> ok]
    /\ steps' = steps + 1
    /\ UNCHANGED << elements, isDragging, isResizing, dragData, resizeData, ghost,
                    nextEid, issued, gestureStart, listeners, tokens, live, writes >>

(* state.setTheme(th) *)
SetTheme(th) ==
    /\ steps < MaxSteps
    /\ theme' = th
    /\ UNCHANGED << cols, widgets, elements, isDragging, isResizing, dragData,
                    resizeData, ghost, nextEid, issued, gestureStart, listeners,
                    tokens, live, store, writes >>
    /\ Publish(<< [topic |-> "theme-changed",
                   data |-> [theme |-> th, oldTheme |-> theme]] >>)
    /\ last' = [op |-> "setTheme", theme |-> th]
    /\ steps' = steps + 1

Next ==
    \/ \E i \in Targets, e \in KeyEvents : KeyDown(i, e)
    \/ \E i \in Targets, part \in PointerParts, acx \in AutoCells, acy \in AutoCells :
          PointerDown(i, part, acx, acy)
    \/ \E dx \in PointerDX, dy \in PointerDY : PointerMove(dx, dy)
    \/ \E dx \in PointerDX, dy \in PointerDY : PointerUp(dx, dy)
    \/ \E p \in Partials : AddWidget(p)
    \/ \E i \in Targets : DuplicateWidget(i)
    \/ \E i \in Targets : RemoveWidget(i)
    \/ \E i \in Indices(elements) : DetachExited(i)
    \/ TimerFire

Spec == Init /\ [][Next]_vars

(* The State Manager alone, started from a stored snapshot: addWidget calls *)
NextPlace == \E p \in SizedPartials : AddWidget(p)

SpecPlace == InitStored /\ [][NextPlace]_vars

(* The user only drags widgets and uses the keyboard shortcuts *)
NextMoves ==
    \/ \E i \in Targets, e \in ArrowEvents : KeyDown(i, e)
    \/ \E i \in Targets : PointerDown(i, "header", 0, 0)
    \/ \E dx \in PointerDX, dy \in PointerDY : PointerMove(dx, dy)
    \/ \E dx \in PointerDX, dy \in PointerDY : PointerUp(dx, dy)

SpecMoves == Init /\ [][NextMoves]_vars

(* The user only uses the keyboard move and resize shortcuts *)
NextKeys == \E i \in KeySlots, e \in ArrowEvents : KeyDown(i, e)

SpecKeys == Init /\ [][NextKeys]_vars

(* The user only adds widgets from the picker and duplicates or removes     *)
(* them from the context menu.                                               *)
NextLifecycle ==
    \/ \E p \in TypePartials : AddWidget(p)
    \/ \E i \in Targets : DuplicateWidget(i)
    \/ \E i \in Targets : RemoveWidget(i)
    \/ \E i \in Indices(elements) : DetachExited(i)

SpecLifecycle == Init /\ [][NextLifecycle]_vars

(* Layouts are imported and exported; addWidget is called with partials     *)
(* that may carry an id.                                                     *)
NextImport ==
    \/ \E data \in ImportData : ImportLayout(data)
    \/ ExportImport
    \/ \E p \in IdPartials : AddWidget(p)

SpecImport == Init /\ [][NextImport]_vars

(* The State Manager is called with ids that may match no widget *)
NextApi ==
    \/ \E id \in ApiIds, u \in ApiUpdates : UpdateWidgetCall(id, u)
    \/ \E id \in ApiIds, pos \in ApiPositions : MoveWidgetCall(id, pos)
    \/ \E id \in ApiIds, size \in ApiSizes : ResizeWidgetCall(id, size)
    \/ \E id \in ApiIds : RemoveWidgetCall(id)
    \/ \E id \in ApiIds : DuplicateWidgetCall(id)
    \/ \E i \in Indices(elements) : DetachExited(i)

SpecApi == Init /\ [][NextApi]_vars

(* addWidget is called with partials that carry coordinates or not *)
NextAdd == \E p \in XYPartials : AddWidget(p)

SpecAdd == Init /\ [][NextAdd]_vars

(* Clients subscribe and unsubscribe handlers while widgets are added and   *)
(* removed and the save timer runs.                                          *)
NextBus ==
    \/ \E t \in BusTopics, h \in BusHandlers : Subscribe(t, h)
    \/ \E k \in 1..MaxSteps : Unsubscribe(k)
    \/ \E p \in BusPartials : AddWidget(p)
    \/ \E id \in BusIds : RemoveWidgetCall(id)
    \/ TimerFire

SpecBus == Init /\ [][NextBus]_vars

(* The state is changed, reset and saved while the Persistent Store may     *)
(* refuse a write (quota exceeded, storage disabled).                        *)
NextStore ==
    \/ \E p \in BusPartials : AddWidget(p)
    \/ \E id \in BusIds : RemoveWidgetCall(id)
    \/ \E th \in Themes : SetTheme(th)
    \/ \E data \in GridImports : ImportLayout(data)
    \/ \E ok \in BOOLEAN : ResetToDefault(ok)
    \/ TimerFire
    \/ TimerFireFails

SpecStore == Init /\ [][NextStore]_vars

(* The import of loadWidgetContent settles for the attached container with  *)
(* identity eid: ok is whether the module's createWidget returns an          *)
(* instance. A container that has left the document is no longer part of     *)
(* the model, and neither is an instance constructed for it.                 *)
LoadContent(eid, ok) ==
    /\ ElementByEid(elements, eid) # 0
    /\ LET i == ElementByEid(elements, eid)
       IN  /\ elements[i].content = "loading"
           /\ elements' = [elements EXCEPT ![i] = loadWidgetContent(elements[i], ok)]
    /\ last' = [op |-> "loadContent", eid |-> eid, ok |-> ok]
    /\ UNCHANGED << cols, widgets, isDragging, isResizing, dragData, resizeData,
                    ghost, nextEid, issued, gestureStart, listeners, tokens, live,
                    events, debounceTimeout, store, writes, theme, steps >>

(* Containers whose import settles in the runs below: two of the default    *)
(* layout and the first one added in the session                             *)
LoadEids == {1, 2, Len(DefaultWidgets) + 1}

(* addWidget partials of a type with a module and of a type without one *)
MountPartials ==
    { [type |-> "clock", config |-> [title |-> "Clock"]],
      [type |-> "gadget", config |-> [title |-> "Gadget"]] }

(* Widgets are added and removed while their content loads *)
NextMount ==
    \/ \E eid \in LoadEids, ok \in BOOLEAN : LoadContent(eid, ok)
    \/ \E p \in MountPartials : AddWidget(p)
    \/ \E id \in BusIds : RemoveWidgetCall(id)
    \/ \E i \in Indices(elements) : DetachExited(i)

SpecMount == Init /\ [][NextMount]_vars

(* A widget-config-changed event is in flight *)
SignalPending == \E i \in Indices(elements) : elements[i].signal # Null

(* The document listener of widget-config-changed, run for the event that   *)
(* the instance in container i dispatched: updateWidget(id, {config}), whose *)
(* widget-updated event the Grid Engine handles before any other handler.    *)
(* length is the parity of the number of events in the chain so far.         *)
ConfigChanged(i) ==
    /\ i \in Indices(elements)
    /\ elements[i].signal # Null
    /\ LET r == updateWidget(widgets, [elements EXCEPT ![i].signal = Null],
                             elements[i].id, [config |-> elements[i].signal])
       IN  /\ widgets' = r.widgets
           /\ elements' = r.elements
           /\ Publish(r.events)
           /\ last' = [op |-> "configChanged", id |-> elements[i].id, ret |-> r.ok,
                       length |-> IF last.op = "configChanged"
                                  THEN 1 - last.length ELSE 1]
    /\ UNCHANGED << cols, isDragging, isResizing, dragData, resizeData, ghost,
                    nextEid, issued, gestureStart, listeners, tokens, live, store,
                    writes, theme, steps >>

(* Calls on widgets whose instance may be mounted. dispatchEvent is          *)
(* synchronous: nothing else runs while an event is in flight.               *)
NextConfig ==
    \/ \E eid \in LoadEids, ok \in BOOLEAN : ~SignalPending /\ LoadContent(eid, ok)
    \/ \E id \in BusIds, position \in ApiPositions :
          ~SignalPending /\ MoveWidgetCall(id, position)
    \/ \E id \in BusIds, size \in ApiSizes :
          ~SignalPending /\ ResizeWidgetCall(id, size)
    \/ \E id \in BusIds : ~SignalPending /\ RemoveWidgetCall(id)
    \/ \E i \in Indices(elements) : ConfigChanged(i)

SpecConfig == Init /\ [][NextConfig]_vars

(* The listener runs as soon as the event is dispatched *)
SpecConfigFair ==
    SpecConfig /\ WF_vars(\E i \in Indices(elements) : ConfigChanged(i))

(* The saved data is cleared between changes and saves *)
NextClear ==
    \/ \E ok \in BOOLEAN : ClearState(ok)
    \/ \E p \in BusPartials : AddWidget(p)
    \/ \E th \in Themes : SetTheme(th)
    \/ TimerFire

SpecClear == InitLoad /\ [][NextClear]_vars

(* A field of the object getState returns that holds the state's own       *)
(* object, not a copy of it                                                 *)
Ref(name) == [ref |-> name]

(* getState(): { ...this.state } copies the top-level properties. theme is  *)
(* a string and is copied by value; grid and widgets are objects, and the   *)
(* copy's properties refer to the very objects this.state refers to.        *)
getState(c, ws, th) ==
    [grid |-> Ref("state.grid"), widgets |-> Ref("state.widgets"), theme |-> th]

(* What a caller does to the object s it got from getState()                *)
CallerMutations ==
    { [kind |-> "assign", field |-> "widgets"],     \* s.widgets = []
      [kind |-> "assign", field |-> "grid"],        \* s.grid = { cols: 4 }
      [kind |-> "assign", field |-> "theme"],       \* s.theme = 'dark'
      [kind |-> "push",   field |-> "widgets"],     \* s.widgets.push(w)
      [kind |-> "set",    field |-> "grid"] }       \* s.grid.cols = 4

(* The record a caller pushes *)
CallerWidget ==
    [id |-> <<"clock", 9>>, type |-> "clock", x |-> 0, y |-> 0, w |-> 1, h |-> 1,
     config |-> [title |-> "Clock"]]

(* The column count a caller writes *)
CallerCols == 4

(* A caller changes the value getState() returned. No State Manager         *)
(* operation runs: nothing is emitted, rendered or saved.                   *)
CallerMutates(m) ==
    /\ steps < MaxSteps
    /\ LET s == getState(cols, widgets, theme)
       IN  /\ widgets' = IF m.kind = "push" /\ s.widgets = Ref("state.widgets")
                          THEN Append(widgets, CallerWidget)
                          ELSE widgets
           /\ cols' = IF m.kind = "set" /\ s.grid = Ref("state.grid")
                       THEN CallerCols
                       ELSE cols
    /\ events' = NoEvents
    /\ last' = [op |-> "callerMutation", kind |-> m.kind, field |-> m.field]
    /\ steps' = steps + 1
    /\ UNCHANGED << elements, isDragging, isResizing, dragData, resizeData, ghost,
                    nextEid, issued, gestureStart, listeners, tokens, live,
                    debounceTimeout, store, writes, theme >>

(* Callers read the state and change what they got, between operations of  *)
(* the State Manager.                                                       *)
NextAlias ==
    \/ \E m \in CallerMutations : CallerMutates(m)
    \/ \E p \in BusPartials : AddWidget(p)
    \/ \E id \in BusIds : RemoveWidgetCall(id)
    \/ \E th \in Themes : SetTheme(th)
    \/ TimerFire

SpecAlias == Init /\ [][NextAlias]_vars

(* Pointer gestures on the default layout, with removals from the context  *)
(* menu and keyboard moves in between.                                       *)
NextGestures ==
    \/ \E i \in Targets, part \in PointerParts : PointerDown(i, part, 0, 0)
    \/ \E dx \in PointerDX, dy \in PointerDY : PointerMove(dx, dy)
    \/ \E dx \in PointerDX, dy \in PointerDY : PointerUp(dx, dy)
    \/ \E i \in Targets : RemoveWidget(i)
    \/ \E i \in Targets, e \in ArrowEvents : KeyDown(i, e)

SpecGestures == Init /\ [][NextGestures]_vars

(* A subscriber's handler that, when it is called with the widget-updated   *)
(* event of a move, calls updateWidget for the same widget before it         *)
(* returns                                                                   *)
ReentrantHandler == "hr"

OrderHandlers == { ReentrantHandler, "h2" }

OrderTopics == { "widget-updated", "*" }

(* The update the re-entrant handler makes *)
FollowUp == [config |-> [title |-> "Moved"]]

(* Tags the deliveries ds as deliveries of the n-th event *)
Tagged(ds, n) == [i \in DOMAIN ds |-> [handler |-> ds[i][1], via |-> ds[i][2], n |-> n]]

(* The calls emit makes for event 1 when the handler at position pos of its *)
(* forEach emits event 2 before it returns: forEach is synchronous, so the   *)
(* whole delivery of event 2 (to2) runs inside that call, and the handlers   *)
(* after pos get event 1 only then.                                          *)
nestedDeliveries(to1, pos, to2) ==
    Tagged(SubSeq(to1, 1, pos), 1) \o Tagged(to2, 2)
        \o Tagged(SubSeq(to1, pos + 1, Len(to1)), 1)

(* updateWidget(id, position) while the re-entrant handler may be subscribed *)
ReentrantUpdate(id, position) ==
    /\ steps < MaxSteps
    /\ LET r1 == updateWidget(widgets, elements, id, position)
           to1 == IF r1.ok THEN emit(listeners, r1.events[1], r1.widgets).to ELSE << >>
           hit == { i \in DOMAIN to1 : to1[i][1] = ReentrantHandler }
           pos == IF hit = {} THEN 0
                  ELSE CHOOSE i \in hit : \A j \in hit : i <= j
           r2 == IF pos = 0
                 THEN [widgets |-> r1.widgets, elements |-> r1.elements, ok |-> FALSE,
                       events |-> NoEvents]
                 ELSE updateWidget(r1.widgets, r1.elements, id, FollowUp)
           to2 == IF r2.ok THEN emit(listeners, r2.events[1], r2.widgets).to ELSE << >>
       IN  /\ widgets' = r2.widgets
           /\ elements' = r2.elements
           /\ Publish(r1.events \o r2.events)
           /\ last' = [op |-> "reentrantUpdate", id |-> id, ret |-> r1.ok,
                       nested |-> r2.ok,
                       log |-> IF pos = 0 THEN Tagged(to1, 1)
                               ELSE nestedDeliveries(to1, pos, to2)]
    /\ steps' = steps + 1
    /\ UNCHANGED << cols, isDragging, isResizing, dragData, resizeData, ghost,
                    nextEid, issued, gestureStart, listeners, tokens, live,
                    store, writes, theme >>

(* Handlers subscribe and a widget is moved; one of the handlers answers a  *)
(* move with an update of its own.                                           *)
NextOrder ==
    \/ \E t \in OrderTopics, h \in OrderHandlers : Subscribe(t, h)
    \/ \E id \in BusIds, pos \in ApiPositions : ReentrantUpdate(id, pos)
    \/ \E id \in BusIds : RemoveWidgetCall(id)
    \/ TimerFire

SpecOrder == Init /\ [][NextOrder]_vars

(* Widgets are removed, added again and moved while the exit transition of  *)
(* a removed container may still be running.                                 *)
NextExit ==
    \/ \E id \in BusIds : RemoveWidgetCall(id)
    \/ \E p \in TypePartials : AddWidget(p)
    \/ \E id \in BusIds, pos \in ApiPositions : MoveWidgetCall(id, pos)
    \/ \E i \in Indices(elements) : DetachExited(i)

SpecExit == Init /\ [][NextExit]_vars

(* The application starts on whatever the Persistent Store holds and is     *)
(* then used: handlers subscribe, the state changes, the timer saves.        *)
NextLoad ==
    \/ \E t \in LoadTopics, h \in BusHandlers : Subscribe(t, h)
    \/ \E p \in BusPartials : AddWidget(p)
    \/ \E th \in Themes : SetTheme(th)
    \/ TimerFire

SpecLoad == InitLoad /\ [][NextLoad]_vars

(* Mutations of every kind followed by the save timer.  A timer set with    *)
(* setTimeout always fires, so the timer callback is weakly fair; it keeps  *)
(* firing after the last event the model lets the user make.                *)
NextLive ==
    \/ \E p \in BusPartials : AddWidget(p)
    \/ \E id \in BusIds, pos \in ApiPositions : MoveWidgetCall(id, pos)
    \/ \E id \in BusIds : RemoveWidgetCall(id)
    \/ \E th \in Themes : SetTheme(th)
    \/ ResetToDefault(TRUE)
    \/ PointerDown(1, "e", 0, 0)
    \/ PointerUp(0, 0)
    \/ TimerFire
    \/ TimerFireLate

SpecLive ==
    /\ Init
    /\ [][NextLive]_vars
    /\ WF_vars(TimerFire)
    /\ WF_vars(TimerFireLate)

----------------------------------------------------------------------------
(* Geometry of widget records, as the specification words it *)

(* A record denotes a rectangle when its geometry is numeric and w, h >= 1 *)
IsRect(r) ==
    /\ ~IsNaN(r.x) /\ ~IsNaN(r.y) /\ ~IsNaN(r.w) /\ ~IsNaN(r.h)
    /\ r.w >= 1
    /\ r.h >= 1

(* Two rectangles overlap when they share a grid cell *)
Overlap(a, b) ==
    /\ IsRect(a)
    /\ IsRect(b)
    /\ \E cx \in a.x..(a.x + a.w - 1), cy \in a.y..(a.y + a.h - 1) :
          /\ b.x <= cx /\ cx < b.x + b.w
          /\ b.y <= cy /\ cy < b.y + b.h

NoOverlap(ws) ==
    \A i \in Indices(ws), j \in Indices(ws) : i < j => ~Overlap(ws[i], ws[j])

AllRects(ws) == \A i \in Indices(ws) : IsRect(ws[i])

OverlapsNone(r, ws) == \A i \in Indices(ws) : ~Overlap(r, ws[i])

InColumns(r, c) == ~IsNaN(r.x) /\ ~IsNaN(r.w) /\ 0 <= r.x /\ r.x + r.w <= c

InBounds(r, c) == IsRect(r) /\ InColumns(r, c) /\ 0 <= r.y

UniqueIds(ws) ==
    \A i \in Indices(ws), j \in Indices(ws) : i < j => ws[i].id # ws[j].id

(* (x, y) is an origin at which a w x h rectangle lies inside the columns   *)
(* and covers no occupied cell.                                              *)
FreeOrigin(ws, c, x, y, w, h) ==
    /\ 0 <= x /\ x + w <= c /\ 0 <= y
    /\ OverlapsNone([x |-> x, y |-> y, w |-> w, h |-> h], ws)

(* No free origin comes before pos in row-major order *)
NoEarlierFreeOrigin(ws, c, pos, w, h) ==
    \A y \in 0..pos.y, x \in 0..(c - w) :
        (y < pos.y \/ x < pos.x) => ~FreeOrigin(ws, c, x, y, w, h)

RowMajorFirst(ws, c, pos, w, h) ==
    /\ FreeOrigin(ws, c, pos.x, pos.y, w, h)
    /\ NoEarlierFreeOrigin(ws, c, pos, w, h)

(* The two placement scenarios: adds of w = 3, h = 2 on a 12-column grid     *)
(* that was empty, and one such add next to a single (0, 0, 12, 2) widget.   *)
ThreeAddsScenario(ws, c, adds) ==
    (/\ c = 12
     /\ Len(ws) = adds
     /\ Len(ws) <= 3
     /\ \A i \in Indices(ws) : ws[i].w = 3 /\ ws[i].h = 2)
    => \A i \in Indices(ws) : ws[i].x = 3 * (i - 1) /\ ws[i].y = 0

FullRowScenario(ws, c, adds) ==
    (/\ c = 12
     /\ Len(ws) = 2
     /\ adds = 1
     /\ ws[1].x = 0 /\ ws[1].y = 0 /\ ws[1].w = 12 /\ ws[1].h = 2
     /\ ws[2].w = 3 /\ ws[2].h = 2)
    => ws[2].x = 0 /\ ws[2].y = 2

(* This step is an addWidget call that searched for a position *)
AddSearchStep ==
    /\ last'.op = "addWidget"
    /\ last'.searched
    /\ widgets' = Append(widgets, last'.widget)

----------------------------------------------------------------------------
(* Claims *)

(* C1: starting from a widget list in which no two rectangles overlap, a    *)
(* complete pointer drag gesture during which nothing else changed the list *)
(* and whose push-down found a free row commits a list in which no two      *)
(* rectangles overlap.                                                       *)
C1_DragKeepsNoOverlap ==
    [][ (/\ isDragging
         /\ last'.op = "pointerup"
         /\ gestureStart = widgets
         /\ NoOverlap(widgets)
         /\ last'.resolved)
        => NoOverlap(widgets') ]_vars

(* C2: addWidget called with neither x nor y, whenever its scan finds a     *)
(* position, places the new widget so that it overlaps no existing widget   *)
(* and 0 <= x and x + w <= columns.                                          *)
C2_AddedWidgetOnFreeCells ==
    [][ (AddSearchStep /\ last'.found)
        => /\ OverlapsNone(last'.widget, widgets)
           /\ InColumns(last'.widget, cols) ]_vars

(* An add that had to go around widgets already in the list *)
C2_Witness ==
    /\ last.op = "addWidget"
    /\ last.searched
    /\ last.found
    /\ Len(widgets) >= 3
    /\ last.widget.x > 0
    /\ last.widget.y > 0

(* C3 (as written): findEmptyPosition returns the row-major-first free      *)
(* origin of a w x h rectangle, whatever the list; three adds of w = 3,     *)
(* h = 2 on an empty 12-column grid land at (0,0), (3,0), (6,0), and next   *)
(* to a single (0,0,12,2) widget the add lands at (0,2).                     *)
C3_AlwaysRowMajorFirst ==
    [][ (AddSearchStep /\ last'.widget.w <= cols)
        => /\ RowMajorFirst(widgets, cols, last'.widget, last'.widget.w, last'.widget.h)
           /\ ThreeAddsScenario(widgets', cols, steps')
           /\ FullRowScenario(widgets', cols, steps') ]_vars

(* C3 (amended): findEmptyPosition returns the row-major-first free origin  *)
(* among rows 0..99 when there is one, and otherwise (0, max bottom edge);  *)
(* the two scenarios hold as written.                                        *)
C3_RowMajorFirstWithinScan ==
    [][ AddSearchStep
        => LET nw == last'.widget
               inScan == \E y \in 0..(MaxScanRows - 1), x \in 0..(cols - nw.w) :
                            FreeOrigin(widgets, cols, x, y, nw.w, nw.h)
           IN  /\ last'.found = inScan
               /\ last'.found =>
                     /\ nw.y < MaxScanRows
                     /\ RowMajorFirst(widgets, cols, nw, nw.w, nw.h)
               /\ ~last'.found =>
                     /\ nw.x = 0
                     /\ nw.y = MaxBottom(widgets, 1)
               /\ ThreeAddsScenario(widgets', cols, steps')
               /\ FullRowScenario(widgets', cols, steps') ]_vars

(* An add whose scan found nothing although a free origin exists lower down *)
C3_Witness ==
    /\ last.op = "addWidget"
    /\ last.searched
    /\ ~last.found
    /\ last.widget.w <= cols
    /\ last.widget.y >= MaxScanRows

(* C4: from the default layout, after any sequence of committed pointer     *)
(* drags and keyboard move/resize actions, every widget has 0 <= x, 0 <= y, *)
(* x + w <= columns, w >= 1 and h >= 1.                                      *)
C4_GeometryInBounds ==
    \A i \in Indices(widgets) : InBounds(widgets[i], cols)

(* C5: the geometry a pointer resize validates for preview and commit has   *)
(* 0 <= x, x + w <= columns, w >= 1 and h >= 1 whenever the widget the      *)
(* gesture started from had.                                                 *)
C5_ValidatedResizeInBounds ==
    (/\ last.op = "pointermove"
     /\ last.gesture = "resize"
     /\ IsRect(resizeData.widget)
     /\ InColumns(resizeData.widget, cols))
    => /\ IsRect(last.validated)
       /\ InColumns(last.validated, cols)

(* C6: from the default layout, no two widgets overlap after any sequence   *)
(* of keyboard move and resize actions.                                      *)
C6_KeyboardKeepsNoOverlap == NoOverlap(widgets)

(* C7: a committed pointer resize gesture, started on a list of rectangles  *)
(* none of which overlap, leaves the resized widget a rectangle that        *)
(* overlaps no other widget.                                                 *)
C7_ResizeCommitNoOverlap ==
    [][ (/\ isResizing
         /\ last'.op = "pointerup"
         /\ last'.committed
         /\ gestureStart = widgets
         /\ AllRects(widgets)
         /\ NoOverlap(widgets))
        => LET k == FindIndex(widgets', last'.id)
           IN  /\ IsRect(widgets'[k])
               /\ \A j \in Indices(widgets') :
                     j # k => ~Overlap(widgets'[k], widgets'[j]) ]_vars

(* C8: duplicateWidget on a list of rectangles none of which overlap never  *)
(* produces a clone that overlaps an existing widget.                        *)
C8_CloneOverlapsNone ==
    [][ (/\ last'.op = "duplicateWidget"
         /\ last'.ok
         /\ widgets' = Append(widgets, last'.widget)
         /\ AllRects(widgets)
         /\ NoOverlap(widgets))
        => OverlapsNone(last'.widget, widgets) ]_vars

(* C9: widget ids are pairwise distinct in every state reached from the     *)
(* default layout by addWidget (whatever the partial carries), duplicate,   *)
(* remove, move and resize.                                                  *)
C9_IdsPairwiseDistinct == UniqueIds(widgets)

(* C10: an id given to a widget by addWidget or duplicateWidget is never     *)
(* given again to a widget created later, also after the first widget was   *)
(* removed.                                                                  *)
C10_IdsNeverReissued ==
    \A i \in DOMAIN issued, j \in DOMAIN issued : i < j => issued[i] # issued[j]

(* The ids present in a list of widget objects are pairwise distinct *)
PresentIdsDistinct(items) ==
    \A i \in DOMAIN items, j \in DOMAIN items :
        (i < j /\ IdTruthy(items[i]) /\ IdTruthy(items[j])) => items[i].id # items[j].id

AllHaveIds(ws) == \A i \in DOMAIN ws : IdTruthy(ws[i])

(* C11: after a successful importLayout(data) every widget has an id and    *)
(* the ids are pairwise distinct, provided the ids present in data.widgets  *)
(* are pairwise distinct; widgets of one type may arrive without an id.     *)
C11_ImportedIdsDistinct ==
    (last.op = "importLayout" /\ last.ok
        /\ PresentIdsDistinct(last.data.widgets.items))
    => (AllHaveIds(widgets) /\ UniqueIds(widgets))

(* Two objects agree on the field f: both lack it or both hold one value *)
SameField(a, b, f) ==
    /\ (f \in DOMAIN a) = (f \in DOMAIN b)
    /\ f \in DOMAIN a => a[f] = b[f]

(* Same ids, positions, sizes and configs in the same order *)
SameLayout(ws, vs) ==
    /\ Len(ws) = Len(vs)
    /\ \A i \in DOMAIN ws :
          \A f \in {"id", "x", "y", "w", "h", "config"} : SameField(ws[i], vs[i], f)

(* C12: importLayout(exportLayout()) returns true and leaves the widget     *)
(* list with the same ids, positions, sizes and configs in the same order;  *)
(* a second export-then-import gives the list the first one gave.           *)
C12_ExportImportRoundTrip ==
    [][last'.op = "exportImport"
         => (last'.ok /\ SameLayout(widgets, widgets') /\ last'.again = widgets')]_vars

(* data.widgets is missing (absent or null) or is not a list *)
WidgetsMissingOrNoList(data) ==
    \/ "widgets" \notin DOMAIN data
    \/ data.widgets = Null
    \/ data.widgets.type # "array"

(* The topics of the events emitted by the last step, in order *)
EmittedTopics == [i \in DOMAIN events |-> events[i].topic]

(* C13: importLayout(data) with data.widgets missing or not a list returns  *)
(* false, emits import-error and no layout-imported, and leaves the grid,    *)
(* the widget list and the theme as they were.                               *)
C13_InvalidImportChangesNothing ==
    [][(last'.op = "importLayout" /\ WidgetsMissingOrNoList(last'.data))
         => /\ ~last'.ok
            /\ EmittedTopics' = << "import-error" >>
            /\ cols' = cols /\ widgets' = widgets /\ theme' = theme]_vars

(* An import of an object with a grid and a theme but no widgets was refused *)
C13_Witness ==
    /\ last.op = "importLayout"
    /\ "widgets" \notin DOMAIN last.data
    /\ "grid" \in DOMAIN last.data /\ last.data.grid.cols # cols
    /\ ~last.ok
    /\ EmittedTopics = << "import-error" >>

(* No record of the list has this id *)
UnknownId(ws, id) == \A i \in DOMAIN ws : ws[i].id # id

(* C14: updateWidget, moveWidget, resizeWidget and removeWidget called with *)
(* an id that matches no record return false and duplicateWidget returns    *)
(* null; the widget list is unchanged and no event is emitted.               *)
C14_UnknownIdChangesNothing ==
    [][("ret" \in DOMAIN last' /\ UnknownId(widgets, last'.id))
         => /\ IF last'.op = "duplicateWidget" THEN last'.ret = Null
                                               ELSE last'.ret = FALSE
            /\ widgets' = widgets
            /\ events' = << >>]_vars

(* moveWidget was called with the id of a widget removed before *)
C14_Witness ==
    /\ last.op = "moveWidget"
    /\ last.id = <<"todo", 1>>
    /\ UnknownId(widgets, last.id)
    /\ last.ret = FALSE
    /\ events = << >>

(* C15: removeWidget(id) for an existing record removes exactly that       *)
(* record, keeps every other record and their order, emits exactly one      *)
(* widget-removed event that carries the removed record, and returns true.  *)
C15_RemoveExactlyOne ==
    [][(last'.op = "removeWidget" /\ "ret" \in DOMAIN last'
            /\ ~UnknownId(widgets, last'.id))
         => \E k \in DOMAIN widgets :
               /\ widgets[k].id = last'.id
               /\ widgets' = RemoveAt(widgets, k)
               /\ Len(events') = 1
               /\ events'[1].topic = "widget-removed"
               /\ events'[1].data = widgets[k]
               /\ last'.ret = TRUE]_vars

(* clock-1, the first record of the list, was removed *)
C15_Witness ==
    /\ last.op = "removeWidget"
    /\ last.id = <<"clock", 1>>
    /\ "ret" \in DOMAIN last /\ last.ret = TRUE
    /\ UnknownId(widgets, last.id)
    /\ Len(events) = 1 /\ events[1].data.id = last.id

(* C16: duplicateWidget(id) for an existing record r (a rectangle) appends *)
(* one record with an id not in the list, the type, config, w and h of r,   *)
(* at (r.x + r.w, r.y) when that rectangle ends within the grid width and   *)
(* otherwise at the position findEmptyPosition returns, and emits exactly   *)
(* one widget-added event carrying the clone.                                *)
C16_DuplicateAppendsClone ==
    [][(last'.op = "duplicateWidget" /\ ~UnknownId(widgets, last'.id))
         => LET r == widgets[FindIndex(widgets, last'.id)]
                clone == widgets'[Len(widgets')]
                position == findEmptyPosition(widgets, cols, r.w, r.h)
            IN  IsRect(r)
                => /\ Len(widgets') = Len(widgets) + 1
                   /\ SubSeq(widgets', 1, Len(widgets)) = widgets
                   /\ UnknownId(widgets, clone.id)
                   /\ clone.type = r.type
                   /\ SameField(clone, r, "config")
                   /\ clone.w = r.w /\ clone.h = r.h
                   /\ IF r.x + r.w + r.w <= cols
                      THEN clone.x = r.x + r.w /\ clone.y = r.y
                      ELSE clone.x = position.x /\ clone.y = position.y
                   /\ Len(events') = 1
                   /\ events'[1].topic = "widget-added"
                   /\ events'[1].data = clone]_vars

(* todo-1, which ends at the last column, was duplicated through the search *)
(* after clock-1 had been duplicated to the cell beside it.                  *)
C16_Witness ==
    /\ last.op = "duplicateWidget"
    /\ last.id = <<"todo", 1>>
    /\ last.ok /\ last.searched
    /\ widgets[Len(widgets)].id = <<"todo", 2>>
    /\ \E i \in DOMAIN widgets :
          widgets[i].id = <<"clock", 2>> /\ widgets[i].x = 3 /\ widgets[i].y = 0

(* The caller's partial carries the coordinate f *)
Supplied(p, f) == f \in DOMAIN p

(* C17: addWidget runs the empty-position search only when the partial      *)
(* carries neither x nor y; when it carries x or y, whatever the value, 0   *)
(* included, the record is placed at the supplied coordinates, a missing    *)
(* one being 0.                                                              *)
C17_SuppliedCoordinatesKept ==
    last.op = "addWidget"
    => LET p == last.partial
           supplied == Supplied(p, "x") \/ Supplied(p, "y")
       IN  /\ last.searched <=> ~supplied
           /\ supplied => /\ last.widget.x = IF Supplied(p, "x") THEN p.x ELSE 0
                           /\ last.widget.y = IF Supplied(p, "y") THEN p.y ELSE 0

(* How often e was delivered to handler h through its subscription to t *)
Deliveries(e, h, t) == Cardinality({ j \in DOMAIN e.to : e.to[j] = << h, t >> })

Receives(ls, k) == InSeq(ls[tokens[k].event], tokens[k].callback)

(* C19: calling the function a subscribe call returned removes the one      *)
(* registration of that call: every other registration not yet              *)
(* unsubscribed, one of the same handler on the same topic included, still  *)
(* receives events, and a second call of the function changes nothing.      *)
C19_UnsubscribeRemovesOneRegistration ==
    [][last'.op = "unsubscribe"
         => /\ \A j \in live' : Receives(listeners', j)
            /\ last'.k \notin live => listeners' = listeners]_vars

(* C20: once the save timer has fired after a burst of mutations, one write *)
(* has happened, the timer is not armed and no second write follows until   *)
(* the next mutation.                                                        *)
C20_OneWritePerBurst ==
    [][last'.op = "timer"
         => /\ last.op # "timer"
            /\ debounceTimeout' # "pending"]_vars

(* The Persistent Store holds the grid, widgets and theme of the state *)
Synced ==
    /\ store # Null
    /\ store.grid.cols = cols
    /\ store.widgets.items = widgets
    /\ store.theme = theme

(* C21: after a mutation (its event arms the save timer), when the writes   *)
(* succeed, the Persistent Store eventually holds a snapshot whose grid,    *)
(* widgets and theme equal those of the state in memory.                    *)
C21_EventuallyPersisted == (debounceTimeout = "pending") ~> Synced

(* The state in memory is the built-in default state *)
StateIsDefault ==
    cols = DefaultCols /\ widgets = DefaultWidgets /\ theme = DefaultTheme

(* The Persistent Store holds the default state *)
StoreIsDefault ==
    /\ store # Null
    /\ store.grid.cols = DefaultCols
    /\ store.widgets.items = DefaultWidgets
    /\ store.theme = DefaultTheme

(* C22 as stated: when resetToDefault returns, the state is the default     *)
(* state, a layout-reset event has been emitted and the Persistent Store    *)
(* holds the default state.                                                  *)
C22_ResetStoresDefault ==
    last.op = "resetToDefault"
    => /\ StateIsDefault
       /\ InSeq(EmittedTopics, "layout-reset")
       /\ StoreIsDefault

(* C22 amended: the Persistent Store holds the default state when the write *)
(* of saveState succeeded; the write is made by the call itself, before any *)
(* timer callback.                                                           *)
C22_ResetStoresDefaultIfWritten ==
    last.op = "resetToDefault"
    => /\ StateIsDefault
       /\ InSeq(EmittedTopics, "layout-reset")
       /\ last.ok => StoreIsDefault

(* A reset of a state with another grid, list and theme wrote the default   *)
(* state over the store.                                                     *)
C22_Witness ==
    /\ last.op = "resetToDefault" /\ last.ok
    /\ events[1].topic = "layout-reset"
    /\ events[1].data.backup.cols # DefaultCols
    /\ events[1].data.backup.widgets # DefaultWidgets
    /\ events[1].data.backup.theme # DefaultTheme
    /\ StateIsDefault /\ StoreIsDefault

(* The step is a write to the Persistent Store that failed *)
WriteFailed == last'.op \in { "timer", "resetToDefault" } /\ ~last'.ok

(* C25: a failed write is caught inside saveState. The caller goes on      *)
(* (resetLayout renders the default list after a reset), a save-error      *)
(* event is emitted, the failure itself changes neither the state in       *)
(* memory nor the store, and a mutation made after it is applied as usual. *)
C25_WriteFailureContained ==
    [][/\ WriteFailed
          => /\ InSeq(EmittedTopics', "save-error")
             /\ store' = store
             /\ last'.op = "timer"
                => cols' = cols /\ widgets' = widgets /\ theme' = theme
             /\ last'.op = "resetToDefault"
                => /\ StateIsDefault'
                   /\ elements' = renderAllWidgetsFrom(DefaultWidgets, nextEid)
       /\ (last.op \in { "timer", "resetToDefault" } /\ ~last.ok)
          => /\ last'.op = "addWidget"
                => /\ Len(widgets') = Len(widgets) + 1
                   /\ SubSeq(widgets', 1, Len(widgets)) = widgets
                   /\ EmittedTopics'[1] = "widget-added"
             /\ last'.op = "setTheme"
                => theme' = last'.theme /\ EmittedTopics'[1] = "theme-changed"
             /\ (last'.op = "removeWidget" /\ last'.ok)
                => Len(widgets') = Len(widgets) - 1
      ]_vars

(* The timer's write of a changed state failed: save-error was emitted,    *)
(* the change is in memory and the store is still empty.                    *)
C25_Witness ==
    /\ last.op = "timer" /\ ~last.ok
    /\ EmittedTopics = << "save-error" >>
    /\ widgets # DefaultWidgets
    /\ store = Null

(* The raw entry is absent, cannot be parsed, or has no list of widgets *)
NothingToLoad(raw) ==
    raw = Null \/ raw = Unparseable \/ WidgetsMissingOrNoList(raw)

(* C23: constructed on a store whose snapshot is absent, cannot be parsed  *)
(* or has widgets missing or not a list, the State Manager starts on the    *)
(* default state and the constructor runs to its end (its wildcard          *)
(* subscription is made, the first render shows the default list).          *)
C23_FallsBackToDefault ==
    (last.op = "construct" /\ NothingToLoad(last.raw))
    => /\ StateIsDefault
       /\ InSeq(listeners["*"], SaveHandler)
       /\ elements = renderAllWidgets(DefaultWidgets)
       /\ store = last.raw

(* Constructed on a document that has a grid and a theme of its own but    *)
(* whose widgets are no list                                                *)
C23_Witness ==
    /\ last.op = "construct"
    /\ last.raw # Null /\ last.raw # Unparseable
    /\ WidgetsMissingOrNoList(last.raw)
    /\ "grid" \in DOMAIN last.raw /\ last.raw.grid.cols # DefaultCols
    /\ StateIsDefault

(* C24: a load-error event emitted during construction is delivered to a   *)
(* subscriber's handler.                                                     *)
C24_LoadErrorDelivered ==
    \A i \in DOMAIN events :
        events[i].topic = "load-error" => events[i].to # << >>

(* C26: whatever a caller does to the top-level fields of the value        *)
(* getState() returned, the widget list, grid and theme a fresh getState()  *)
(* reports are those the State Manager's operations produced.               *)
C26_ReturnedValueIsolated ==
    [][last'.op = "callerMutation"
         => cols' = cols /\ widgets' = widgets /\ theme' = theme]_vars

(* The engine is Idle, Dragging or Resizing, and the gesture data agree *)
GestureStateOk ==
    /\ ~(isDragging /\ isResizing)
    /\ (dragData # Null) <=> isDragging
    /\ (resizeData # Null) <=> isResizing

(* A pointer-down during a gesture starts nothing and leaves the gesture   *)
(* data alone; a pointer-up leaves the engine Idle.                         *)
PointerDiscipline ==
    /\ (last'.op = "pointerdown" /\ (isDragging \/ isResizing))
       => /\ last'.started = "none"
          /\ UNCHANGED << isDragging, isResizing, dragData, resizeData >>
    /\ last'.op = "pointerup"
       => /\ ~isDragging' /\ ~isResizing'
          /\ dragData' = Null /\ resizeData' = Null

(* C27: in every reachable state the engine is exactly one of Idle,        *)
(* Dragging, Resizing (the two flags are never both true, drag data exist   *)
(* exactly while Dragging, resize data exactly while Resizing); a           *)
(* pointer-down during a gesture starts no gesture and changes no gesture   *)
(* data; every pointer-up returns the engine to Idle.                       *)
C27_OneGestureAtATime == []GestureStateOk /\ [][PointerDiscipline]_vars

(* A pointer-down on a resize handle arrived during a drag and was ignored *)
C27_Witness ==
    /\ last.op = "pointerdown" /\ last.started = "none"
    /\ isDragging /\ dragData # Null
    /\ ~isResizing /\ resizeData = Null

(* The record the widget of the gesture had when the gesture started *)
RecordAtStart(id) == gestureStart[FindIndex(gestureStart, id)]

(* C28: a pointer-move never changes the widget list. The pointer-up that  *)
(* ends a drag calls moveWidget once, with the validated final position,    *)
(* when that position differs from the widget's position at the start of    *)
(* the gesture, and does not call it otherwise.                              *)
C28_DragCommitsOnceOnRelease ==
    [][/\ last'.op = "pointermove" => widgets' = widgets /\ events' = NoEvents
       /\ (last'.op = "pointerup" /\ last'.gesture = "drag")
          => LET start == RecordAtStart(last'.id)
                 differs == \/ JsStrictNe(last'.position.x, start.x)
                            \/ JsStrictNe(last'.position.y, start.y)
                 k == FindIndex(widgets, last'.id)
             IN  /\ last'.moved <=> differs
                 /\ (differs /\ k # 0)
                    => /\ EmittedTopics' = << "widget-updated" >>
                       /\ events'[1].data.updates = last'.position
                       /\ widgets' = [widgets EXCEPT
                                         ![k] = Merge(widgets[k], last'.position)]
                 /\ (~differs \/ k = 0)
                    => widgets' = widgets /\ events' = NoEvents
      ]_vars

(* A drag was released on another validated position and committed once *)
C28_Witness ==
    /\ last.op = "pointerup" /\ last.gesture = "drag"
    /\ last.moved /\ last.committed
    /\ EmittedTopics = << "widget-updated" >>
    /\ events[1].data.old.y # events[1].data.widget.y

(* The four geometry fields of a record *)
Geometry(wd) == [x |-> wd.x, y |-> wd.y, w |-> wd.w, h |-> wd.h]

(* Four integers with w >= 1 and h >= 1 *)
IsGeometry(g) ==
    /\ ~IsNaN(g.x) /\ ~IsNaN(g.y) /\ ~IsNaN(g.w) /\ ~IsNaN(g.h)
    /\ g.w >= 1 /\ g.h >= 1

(* C29: the pointer-up that ends a resize commits, through updateWidget,   *)
(* exactly the geometry {x, y, w, h} of the last validated preview when it  *)
(* differs from the geometry at the start of the gesture, and commits       *)
(* nothing when it is equal, in particular when no pointer-move happened.   *)
C29_ResizeCommitsLastPreview ==
    [][(last'.op = "pointerup" /\ last'.gesture = "resize")
         => LET start == Geometry(RecordAtStart(last'.id))
                preview == IF last.op = "pointermove" /\ last.gesture = "resize"
                           THEN last.validated
                           ELSE start
                k == FindIndex(widgets, last'.id)
            IN  (last.op \in { "pointermove", "pointerdown" } /\ k # 0)
                => IF preview = start
                   THEN widgets' = widgets /\ events' = NoEvents
                   ELSE /\ IsGeometry(preview)
                        /\ EmittedTopics' = << "widget-updated" >>
                        /\ events'[1].data.updates = preview
                        /\ Geometry(widgets'[k]) = preview
      ]_vars

(* What the keyboard shortcut (key, ctrl) is to make of the record wd on a *)
(* grid of c columns: the record after it, wd itself when the action is     *)
(* blocked.                                                                  *)
KeyboardResult(wd, key, ctrl, c) ==
    CASE key = "ArrowLeft" /\ ~ctrl ->
            IF wd.x = 0 THEN wd ELSE [wd EXCEPT !.x = wd.x - 1]
      [] key = "ArrowRight" /\ ~ctrl ->
            IF wd.x + wd.w = c THEN wd ELSE [wd EXCEPT !.x = wd.x + 1]
      [] key = "ArrowUp" /\ ~ctrl ->
            IF wd.y = 0 THEN wd ELSE [wd EXCEPT !.y = wd.y - 1]
      [] key = "ArrowDown" /\ ~ctrl -> [wd EXCEPT !.y = wd.y + 1]
      [] key = "ArrowLeft" /\ ctrl ->
            IF wd.w - 1 < 1 THEN wd ELSE [wd EXCEPT !.w = wd.w - 1]
      [] key = "ArrowRight" /\ ctrl ->
            IF wd.x + wd.w + 1 > c THEN wd ELSE [wd EXCEPT !.w = wd.w + 1]
      [] key = "ArrowUp" /\ ctrl ->
            IF wd.h - 1 < 1 THEN wd ELSE [wd EXCEPT !.h = wd.h - 1]
      [] key = "ArrowDown" /\ ctrl -> [wd EXCEPT !.h = wd.h + 1]
      [] OTHER -> wd

(* C30: with a widget focused, an arrow key moves it by one cell (one of x, *)
(* y changes by 1) unless blocked at x = 0, x + w = columns or y = 0;        *)
(* Ctrl/Cmd+arrow changes one of w, h by 1 unless that would shrink below 1  *)
(* or pass the right edge; Shift+Delete removes the widget. Each action is   *)
(* one call of the State Manager, committed at once and without preview.     *)
C30_KeyboardActions ==
    [][(last'.op = "keydown" /\ FindIndex(widgets, last'.id) # 0)
         => LET k == FindIndex(widgets, last'.id)
                wd == widgets[k]
                expected == KeyboardResult(wd, last'.key, last'.ctrl, cols)
            IN  /\ ghost' = ghost
                /\ UNCHANGED << isDragging, isResizing, dragData, resizeData >>
                /\ IF last'.key \in { "Delete", "Backspace" }
                   THEN /\ widgets' = RemoveAt(widgets, k)
                        /\ EmittedTopics' = << "widget-removed" >>
                   ELSE /\ widgets' = [widgets EXCEPT ![k] = expected]
                        /\ EmittedTopics' = IF expected = wd THEN << >>
                                             ELSE << "widget-updated" >>
      ]_vars

(* C31: every subscriber is called with the widget-updated events of one   *)
(* widget in the order of the mutations, also when a handler calls           *)
(* updateWidget for that widget while an event is being delivered.           *)
C31_EventsInMutationOrder ==
    last.op = "reentrantUpdate"
    => \A i, j \in DOMAIN last.log :
          (/\ i < j
           /\ last.log[i].handler = last.log[j].handler
           /\ last.log[i].via = last.log[j].via)
          => last.log[i].n <= last.log[j].n

(* The container shows the geometry of the record *)
Shows(el, wd) ==
    /\ el.col = [start |-> wd.x + 1, span |-> wd.w]
    /\ el.row = [start |-> wd.y + 1, span |-> wd.h]

(* C37: once the Grid Engine has handled the widget-updated event of a     *)
(* record of the widget list, the container rendered for that record        *)
(* (attached, not in its exit transition) shows the record's x, y, w, h,    *)
(* also while the container of a removed widget of the same id is still     *)
(* attached.                                                                 *)
C37_ContainerShowsRecord ==
    [][(last'.op = "moveWidget" /\ last'.ret)
         => LET wd == widgets'[FindIndex(widgets', last'.id)]
            IN  \A i \in Indices(elements') :
                    (elements'[i].id = wd.id /\ ~elements'[i].exiting)
                    => Shows(elements'[i], wd)]_vars

----------------------------------------------------------------------------
(* validatePosition called on its own, on a stored layout *)

(* An excludeId left at its default, null: it is the id of no widget *)
NoExclude == <<"", 0>>

ValidateArgs ==
    [x : {-1, 1, 3}, y : {-1, 0}, w : {1, 2, 5}, h : {1, 2},
     excludeId : {NoExclude, <<"clock", 1>>}]

ValidatePosition(a) ==
    /\ last' = [op |-> "validatePosition", args |-> a,
                ret |-> validatePosition(widgets, cols, a.x, a.y, a.w, a.h, a.excludeId)]
    /\ UNCHANGED << cols, widgets, elements, isDragging, isResizing, dragData,
                    resizeData, ghost, nextEid, issued, gestureStart, listeners,
                    tokens, live, events, debounceTimeout, store, writes, theme, steps >>

NextValidate == \E a \in ValidateArgs : ValidatePosition(a)

SpecValidate == InitStored /\ [][NextValidate]_vars

(* C34: validatePosition returns x clamped into the columns and the first  *)
(* row at or below max(0, y), fewer than MaxAttempts rows down, at which the *)
(* rectangle shares no cell with a widget other than the excluded one; when  *)
(* there is no such row it returns max(0, y) + MaxAttempts. x is never       *)
(* changed to resolve a collision.                                           *)
C34_ValidatePositionResult ==
    last.op = "validatePosition"
    => LET a == last.args
           cx == IF a.x > cols - a.w THEN (IF cols - a.w < 0 THEN 0 ELSE cols - a.w)
                 ELSE IF a.x < 0 THEN 0 ELSE a.x
           y0 == IF a.y < 0 THEN 0 ELSE a.y
           free(k) == \A i \in Indices(widgets) :
                         widgets[i].id # a.excludeId
                         => ~Overlap([x |-> cx, y |-> y0 + k, w |-> a.w, h |-> a.h],
                                     widgets[i])
           k == last.ret.y - y0
       IN  /\ last.ret.x = cx
           /\ k \in 0..MaxAttempts
           /\ \A j \in 0..(k - 1) : ~free(j)
           /\ k < MaxAttempts => free(k)

(* A call that had to push down, and a call that spent every attempt *)
C34_Witness ==
    /\ last.op = "validatePosition"
    /\ last.ret.y = MathMax(0, last.args.y) + MaxAttempts
    /\ last.args.x # last.ret.x

----------------------------------------------------------------------------
(* Drags on a stored layout *)

NextDragStored ==
    \/ \E i \in Targets : PointerDown(i, "header", 0, 0)
    \/ \E dx \in PointerDX, dy \in PointerDY : PointerMove(dx, dy)
    \/ \E dx \in PointerDX, dy \in PointerDY : PointerUp(dx, dy)

SpecDragStored == InitStored /\ [][NextDragStored]_vars

(* Widget A (3 x 2 at (0, 0)) is being dragged and widget B (3 x 2 at       *)
(* (3, 0)) is the only other widget                                          *)
DraggingANextToB ==
    /\ isDragging
    /\ Len(widgets) = 2
    /\ dragData.widgetId = widgets[1].id
    /\ Geometry(widgets[1]) = [x |-> 0, y |-> 0, w |-> 3, h |-> 2]
    /\ Geometry(widgets[2]) = [x |-> 3, y |-> 0, w |-> 3, h |-> 2]

ReleasedAtOneZero ==
    /\ last'.op = "pointerup"
    /\ last'.gesture = "drag"
    /\ last'.candidate = [x |-> 1, y |-> 0]

(* C35: dragging A (w = 3, h = 2 at (0, 0)) to the candidate (1, 0) while B *)
(* occupies (3, 0, w = 3, h = 2) commits A at (1, 2): the candidate covers   *)
(* columns 1..3, B covers columns 3..5, they intersect in column 3 and A is  *)
(* pushed down to the first row below B.                                     *)
C35_DragNextToNeighbour ==
    [][(DraggingANextToB /\ ReleasedAtOneZero)
         => /\ last'.committed
            /\ Geometry(widgets'[1]) = [x |-> 1, y |-> 2, w |-> 3, h |-> 2]
            /\ widgets'[2] = widgets[2]]_vars

(* A has been released at the candidate (1, 0) next to B *)
C35_Witness ==
    /\ last.op = "pointerup"
    /\ last.gesture = "drag"
    /\ last.candidate = [x |-> 1, y |-> 0]
    /\ Len(widgets) = 2
    /\ Geometry(widgets[1]) = [x |-> 1, y |-> 2, w |-> 3, h |-> 2]
    /\ Geometry(widgets[2]) = [x |-> 3, y |-> 0, w |-> 3, h |-> 2]

(* C35 as stated: the drag commits A at exactly (1, 0) *)
C35_CommitsAtCandidate ==
    [][(DraggingANextToB /\ ReleasedAtOneZero)
         => Geometry(widgets'[1]) = [x |-> 1, y |-> 0, w |-> 3, h |-> 2]]_vars

----------------------------------------------------------------------------
(* C36: during a resize the opposite edge stays anchored for every pointer  *)
(* displacement: a pointer-move on a west handle (w, nw, sw) previews a      *)
(* geometry whose x + w is the value at the start of the gesture, one on a   *)
(* north handle (n, ne, nw) a geometry whose y + h is the value at the       *)
(* start, and one on e, s or se leaves x and y unchanged.                    *)
C36_OppositeEdgeAnchored ==
    [][(isResizing /\ last'.op = "pointermove" /\ last'.gesture = "resize")
         => LET v == last'.validated
                op == resizeData.originalPosition
                os == resizeData.originalSize
                handle == resizeData.handle
            IN  /\ handle \in {"w", "nw", "sw"} => v.x + v.w = op.x + os.w
                /\ handle \in {"n", "ne", "nw"} => v.y + v.h = op.y + os.h
                /\ handle \in {"e", "s", "se"} => (v.x = op.x /\ v.y = op.y)]_vars

----------------------------------------------------------------------------
(* C40: when the dragged widget was removed or resized through another      *)
(* input path between pointer-down and pointer-up, the pointer-up commits    *)
(* with the widget as it is then: a removed widget leaves the list           *)
(* unchanged, and a resized widget is committed at a position where its      *)
(* current w x h rectangle lies inside the columns and overlaps no other     *)
(* widget.                                                                   *)
C40_CommitUsesCurrentGeometry ==
    [][(isDragging /\ last'.op = "pointerup" /\ last'.gesture = "drag")
         => LET k == FindIndex(widgets, dragData.widgetId)
            IN  IF k = 0
                THEN widgets' = widgets
                ELSE ( /\ last'.committed
                       /\ <<widgets[k].w, widgets[k].h>>
                            # <<dragData.widget.w, dragData.widget.h>> )
                     => /\ InColumns(widgets'[k], cols)
                        /\ \A j \in Indices(widgets') :
                              j # k => ~Overlap(widgets'[k], widgets'[j])]_vars

----------------------------------------------------------------------------
(* C39: after clearState the Persistent Store holds no snapshot, and it     *)
(* stays empty until the next state mutation is issued: the debounce timer   *)
(* firing after clearState, with no call in between, leaves it empty.        *)
C39_ClearedStoreStaysEmpty ==
    /\ [](last.op = "clearState" /\ last.ok => store = Null)
    /\ [][(last.op = "clearState" /\ last.ok /\ last'.op = "timer")
            => store' = Null]_vars

----------------------------------------------------------------------------
(* C32: when the instantiation of one widget fails, its container shows the *)
(* error placeholder and stays mounted, nothing else changes, and the        *)
(* content of every other container is populated as its own load decides.    *)
C32_LoadFailureContained ==
    [][(last'.op = "loadContent" /\ ~last'.ok)
         => /\ widgets' = widgets
            /\ Len(elements') = Len(elements)
            /\ \A i \in Indices(elements) :
                  IF elements[i].eid = last'.eid
                  THEN elements'[i] = [elements[i] EXCEPT !.content = "error"]
                  ELSE elements'[i] = elements[i]]_vars

(* One container shows the error placeholder and the content of another,    *)
(* loaded after it, is populated                                             *)
C32_Witness ==
    /\ last.op = "loadContent"
    /\ last.ok
    /\ \E i, j \in Indices(elements) :
          /\ elements[i].content = "error"
          /\ elements[i].type \notin WidgetModules
          /\ elements[j].eid = last.eid
          /\ elements[j].content = "instance"

(* C33: for every widget removed through removeWidget, destroy has been     *)
(* invoked on every instance constructed for it, whether the removal comes   *)
(* before or after the content load completes.                               *)
C33_RemovedInstancesDestroyed ==
    \A i \in Indices(elements) :
        (elements[i].exiting /\ elements[i].content = "instance")
        => elements[i].destroyed

(* C38: a call on a widget whose instance is mounted causes finitely many   *)
(* widget-updated events: whenever a widget-config-changed event is in       *)
(* flight, the chain it belongs to ends.                                     *)
C38_ConfigChainTerminates == SignalPending ~> ~SignalPending

====
